---- MODULE Spec2Model ----
(***************************************************************************)
(* A model of smrice3/und_decode: the extractor (wrapper-pattern search,   *)
(* base64/UTF-8/JSON decoding, lesson location) and the IMSCC packager     *)
(* (create_package and the steps it calls).                                *)
(*                                                                         *)
(* JSON values are tagged records:                                         *)
(*   [t |-> "null"]  [t |-> "bool", b]  [t |-> "num", n]  [t |-> "str", s] *)
(*   (s the characters of the string, a sequence: one-character strings,   *)
(*   or code points where the string was decoded from bytes)               *)
(*   [t |-> "list", e |-> <<values>>]                                      *)
(*   [t |-> "dict", kv |-> <<[k |-> key, v |-> value], ...>>]              *)
(* A dict keeps its fields in insertion order, as a Python dict does.      *)
(* A Python call that raises is a record [raised |-> TRUE, exc |-> name].  *)
(***************************************************************************)
EXTENDS Integers, Sequences, FiniteSets, TLC

VARIABLES
    json_data,   \* the parsed payload handed to extract_lesson_data
    lpc,         \* locator run: "start", "build" while the payload is assembled, "done" after the call
    located,     \* the outcome of each copy of extract_lesson_data on json_data
    text,        \* the und.js file, as the chunks it was written in
    file_ok,     \* imscc_creator opened and read the file without an exception
    jpc,         \* wrapper search: "write" while the file is written, "done" after the calls
    extracted,   \* the outcome of each copy of extract_jsonp_content on the file
    base64_content, \* the string handed to decode_base64_content, as symbols
    dpc,         \* decoding: "new", "ready" (uploaded), "damaged", "called"
    decoded,     \* the outcome of each copy of decode_base64_content at its last call
    lessons,     \* the caller's lesson list handed to create_package
    base_url,    \* create_package's base_url, as characters
    clean_temp,  \* create_package's clean_temp
    bpc,         \* build: "args", "dirs", "manifest", "finally", "done"
    temp_dir,    \* the scratch directory: whether it exists, its directories and files
    output,      \* the file at output_path: whether it exists and its members
    built,       \* how create_package ends: the exception raised or the path returned
    now,         \* datetime.now(), in whole seconds
    scratch,     \* the scratch directories on disk, by output directory and timestamp
    builds,      \* the create_package calls that run side by side, each with its position
    loading,     \* a load_lessons_from_file call: the file, the position, what was returned
    pipeline     \* a run of the upload script: the app, the position, the calls made, what was shown

lvars == <<json_data, lpc, located>>
jvars == <<text, file_ok, jpc, extracted>>
dvars == <<base64_content, dpc, decoded>>
bvars == <<lessons, base_url, clean_temp, bpc, temp_dir, output, built>>
cvars == <<now, scratch, builds>>
fvars == <<loading>>
pvars == <<pipeline>>
vars == <<lvars, jvars, dvars, bvars, cvars, fvars, pvars>>

----------------------------------------------------------------------------
(* JSON values and the Python operations the code applies to them          *)

JNull == [t |-> "null"]
JBool(b) == [t |-> "bool", b |-> b]
JNum(n) == [t |-> "num", n |-> n]
JStr(s) == [t |-> "str", s |-> s]
JList(e) == [t |-> "list", e |-> e]
JDict(kv) == [t |-> "dict", kv |-> kv]

Min(a, b) == IF a <= b THEN a ELSE b

\* key in d, for a dict d
HasKey(d, key) == \E i \in 1..Len(d.kv) : d.kv[i].k = key

\* d[key], for a dict d that has the key
Get(d, key) == d.kv[CHOOSE i \in 1..Len(d.kv) : d.kv[i].k = key].v

\* bool(v): None, False, 0, "", [] and {} are falsy
Truthy(v) ==
    CASE v.t = "null" -> FALSE
      [] v.t = "bool" -> v.b
      [] v.t = "num" -> v.n # 0
      [] v.t = "str" -> v.s # <<>>
      [] v.t = "list" -> Len(v.e) > 0
      [] v.t = "dict" -> Len(v.kv) > 0

\* len(v) is defined for str, list and dict and raises TypeError otherwise
HasLen(v) == v.t \in {"str", "list", "dict"}

\* the characters of the words the code looks for
CharsOf(word) ==
    CASE word = "lessons" -> <<"l", "e", "s", "s", "o", "n", "s">>
      [] word = "title" -> <<"t", "i", "t", "l", "e">>
      [] word = "id" -> <<"i", "d">>

\* word in s, for strings: word occurs in s as a substring
StrContains(s, word) ==
    \E i \in 1..(Len(s) - Len(word) + 1) : SubSeq(s, i, i + Len(word) - 1) = word

\* `word in v` for a JSON value v: a key test on a dict, a membership test
\* on a list, a substring test on a str, and TypeError on a scalar.
InRaises(v) == v.t \in {"null", "bool", "num"}
InHolds(word, v) ==
    CASE v.t = "dict" -> HasKey(v, word)
      [] v.t = "list" -> \E i \in 1..Len(v.e) : v.e[i] = JStr(CharsOf(word))
      [] v.t = "str" -> StrContains(v.s, CharsOf(word))
      [] OTHER -> FALSE

\* The outcome of a call: the exception raised, or the value returned with
\* the locals the code reports beside it (the field chosen and by which
\* method: 1 direct key, 2 top-level scan, 3 deep search, 0 none).
Raise(exc) ==
    [raised |-> TRUE, exc |-> exc, val |-> <<>>, key |-> "", method |-> 0]
Return(val, key, method) ==
    [raised |-> FALSE, exc |-> "", val |-> val, key |-> key, method |-> method]

----------------------------------------------------------------------------
(* extract_lesson_data: the three copies                                   *)

\* the generator expression summed at imscc_creator.py:117-118
LooksLikeLesson(item) ==
    item.t = "dict" /\ HasKey(item, "title") /\ HasKey(item, "id")

SampleCap == 5

\* a scan that looks at the whole list instead of its first five elements
SampleItems_Whole(value) == value

\* value[:sample_size] with sample_size = min(5, len(value))
SampleItems(value) == SubSeq(value, 1, Min(SampleCap, Len(value)))

CountMatches(items) ==
    Cardinality({i \in 1..Len(items) : LooksLikeLesson(items[i])})

\* has_title_id/sample_size on two candidates, compared without rounding:
\* a correctly rounded quotient of integers below 6 orders as the rationals do
FractionLess(a, b) == a.num * b.den < b.num * a.den

\* one (key, value, fraction) tuple of the candidates list
Candidate(key, value) ==
    [key |-> key, value |-> value,
     num |-> CountMatches(SampleItems(value)),
     den |-> Min(SampleCap, Len(value))]

\* the loop over json_data.items() that fills candidates
RECURSIVE ScanFields(_)
ScanFields(kv) ==
    IF kv = <<>> THEN <<>>
    ELSE LET f == kv[Len(kv)]
             before == ScanFields(SubSeq(kv, 1, Len(kv) - 1))
         IN IF f.v.t = "list" /\ Len(f.v.e) > 0
               /\ CountMatches(SampleItems(f.v.e)) > 0
            THEN Append(before, Candidate(f.k, f.v.e))
            ELSE before

\* a sort that puts a candidate before the earlier ones of equal fraction
InsertCandidate_Unstable(sorted, c) ==
    LET later == {i \in 1..Len(sorted) : ~(c.num * sorted[i].den < sorted[i].num * c.den)}
        pos == IF later = {} THEN Len(sorted) + 1
               ELSE CHOOSE i \in later : \A j \in later : i <= j
    IN SubSeq(sorted, 1, pos - 1) \o <<c>> \o SubSeq(sorted, pos, Len(sorted))

\* list.sort(key=fraction, reverse=True): stable, so candidates of equal
\* fraction keep the order in which they were appended
InsertCandidate(sorted, c) ==
    LET later == {i \in 1..Len(sorted) : FractionLess(sorted[i], c)}
        pos == IF later = {} THEN Len(sorted) + 1
               ELSE CHOOSE i \in later : \A j \in later : i <= j
    IN SubSeq(sorted, 1, pos - 1) \o <<c>> \o SubSeq(sorted, pos, Len(sorted))

RECURSIVE SortCandidates(_)
SortCandidates(cs) ==
    IF cs = <<>> THEN <<>>
    ELSE InsertCandidate(SortCandidates(SubSeq(cs, 1, Len(cs) - 1)), cs[Len(cs)])

\* Method 2: the sorted candidates of the top-level scan
HeuristicScan(json_data_) == SortCandidates(ScanFields(json_data_.kv))

\* an extraction that appends the source record itself
ProjectLesson_Whole(lesson) == lesson

\* lesson_data built from one element of lessons: id first, then title
ProjectLesson(lesson) ==
    JDict(<<[k |-> "id", v |-> Get(lesson, "id")]>>
          \o (IF HasKey(lesson, "title")
              THEN <<[k |-> "title", v |-> Get(lesson, "title")]>>
              ELSE <<>>))

\* the loop `for lesson in lessons` over a list
RECURSIVE ProjectAll(_)
ProjectAll(items) ==
    IF items = <<>> THEN <<>>
    ELSE LET lesson == items[Len(items)]
             before == ProjectAll(SubSeq(items, 1, Len(items) - 1))
         IN IF lesson.t = "dict" /\ HasKey(lesson, "id")
            THEN Append(before, ProjectLesson(lesson))
            ELSE before

\* `if lessons: for lesson in lessons: ...`: iterating a str yields its
\* characters and iterating a dict its keys, none of them a dict; iterating a
\* number or True raises TypeError
CollectLessons(lessons_, key, method) ==
    IF ~Truthy(lessons_) THEN Return(<<>>, key, method)
    ELSE CASE lessons_.t = "list" -> Return(ProjectAll(lessons_.e), key, method)
           [] lessons_.t \in {"str", "dict"} -> Return(<<>>, key, method)
           [] OTHER -> Raise("TypeError")

\* `'lessons' in json_data` and what follows it on a payload that is no dict:
\* a scalar is not iterable; a str or list passes the test or not, and then
\* json_data['lessons'] or json_data.items() raises
NonDictPayload(json_data_) ==
    IF InRaises(json_data_) THEN Raise("TypeError")
    ELSE IF InHolds("lessons", json_data_) THEN Raise("TypeError")
    ELSE Raise("AttributeError")

\* imscc_creator.extract_lesson_data
extract_lesson_data_imscc(json_data_) ==
    IF json_data_.t # "dict" THEN NonDictPayload(json_data_)
    ELSE LET present == HasKey(json_data_, "lessons")
             lessons_ == IF present THEN Get(json_data_, "lessons") ELSE JNull
         IN IF present /\ ~HasLen(lessons_)
            THEN Raise("TypeError")     \* len(lessons) inside the print
            ELSE IF Truthy(lessons_)
            THEN CollectLessons(lessons_, "lessons", 1)
            ELSE LET candidates == HeuristicScan(json_data_)
                 IN IF candidates # <<>>
                    THEN CollectLessons(JList(candidates[1].value),
                                        candidates[1].key, 2)
                    ELSE CollectLessons(lessons_, "", 0)

\* und_decode.analyze_json_structure, called only with debug: json_data.keys()
\* raises on a payload that is no dict; the rest only reads value[0] of lists
AnalyzeRaises(json_data_) == json_data_.t # "dict"

\* the generator summed at und_decode.py:175-176: `'title' in item` is
\* evaluated first and raises on a scalar item
DeepItemRaises(item) == InRaises(item)
DeepItemMatches(item) == InHolds("title", item) /\ InHolds("id", item)

\* a walk that looks into the next three elements too, which is every element
\* of the lists of the model
DeepChildren_All == 3 + 3

DeepChildren == 3

\* find_lesson_arrays(obj, path): [raised, cands], the candidates in the
\* order results.extend / results.append produce them
RECURSIVE find_lesson_arrays(_, _)
RECURSIVE FindInValues(_, _, _)
RECURSIVE FindInItems(_, _, _)

\* the loop over obj.items() of a dict, from field i on
FindInValues(kv, i, path) ==
    IF i > Len(kv) THEN [raised |-> FALSE, cands |-> <<>>]
    ELSE LET here == find_lesson_arrays(kv[i].v, Append(path, kv[i].k))
         IN IF here.raised THEN here
            ELSE LET rest == FindInValues(kv, i + 1, path)
                 IN IF rest.raised THEN rest
                    ELSE [raised |-> FALSE, cands |-> here.cands \o rest.cands]

\* the loop over obj[:3] of a list, from element i on
FindInItems(e, i, path) ==
    IF i > Min(DeepChildren, Len(e)) THEN [raised |-> FALSE, cands |-> <<>>]
    ELSE LET here == find_lesson_arrays(e[i], Append(path, "[]"))
         IN IF here.raised THEN here
            ELSE LET rest == FindInItems(e, i + 1, path)
                 IN IF rest.raised THEN rest
                    ELSE [raised |-> FALSE, cands |-> here.cands \o rest.cands]

find_lesson_arrays(obj, path) ==
    IF obj.t = "dict" THEN FindInValues(obj.kv, 1, path)
    ELSE IF obj.t = "list" /\ Len(obj.e) > 0 /\ obj.e[1].t = "dict"
    THEN LET sample == SampleItems(obj.e)
             has == Cardinality({i \in 1..Len(sample) : DeepItemMatches(sample[i])})
             own == IF has > 0
                    THEN <<[key |-> path, value |-> obj.e, num |-> has,
                            den |-> Len(sample)]>>
                    ELSE <<>>
         IN IF \E i \in 1..Len(sample) : DeepItemRaises(sample[i])
            THEN [raised |-> TRUE, cands |-> <<>>]
            ELSE LET below == FindInItems(obj.e, 1, path)
                 IN IF below.raised THEN below
                    ELSE [raised |-> FALSE, cands |-> own \o below.cands]
    ELSE [raised |-> FALSE, cands |-> <<>>]

\* Method 3 and the extraction after it (und_decode.py:159-224)
DeepSearch(json_data_, lessons_) ==
    LET found == find_lesson_arrays(json_data_, <<"root">>)
    IN IF found.raised THEN Raise("TypeError")
       ELSE LET deep_candidates == SortCandidates(found.cands)
            IN IF deep_candidates # <<>>
               THEN CollectLessons(JList(deep_candidates[1].value), "", 3)
               ELSE CollectLessons(lessons_, "", 0)

\* the body the und_decode and rise_extractor_app copies share, line for line
ExtractWithDebug(json_data_, debug) ==
    IF debug /\ AnalyzeRaises(json_data_) THEN Raise("AttributeError")
    ELSE IF json_data_.t # "dict" THEN NonDictPayload(json_data_)
    ELSE LET present == HasKey(json_data_, "lessons")
             lessons_ == IF present THEN Get(json_data_, "lessons") ELSE JNull
         IN IF debug /\ present /\ ~HasLen(lessons_)
            THEN Raise("TypeError")     \* len(lessons) inside st.success
            ELSE IF Truthy(lessons_)
            THEN CollectLessons(lessons_, "lessons", 1)
            ELSE LET candidates == HeuristicScan(json_data_)
                 IN IF candidates # <<>>
                    THEN CollectLessons(JList(candidates[1].value),
                                        candidates[1].key, 2)
                    ELSE IF debug THEN DeepSearch(json_data_, lessons_)
                    ELSE CollectLessons(lessons_, "", 0)

\* und_decode.extract_lesson_data
extract_lesson_data_und(json_data_, debug) == ExtractWithDebug(json_data_, debug)

\* rise_extractor_app.extract_lesson_data
extract_lesson_data_rise(json_data_, debug) == ExtractWithDebug(json_data_, debug)

----------------------------------------------------------------------------
(* The locator run: a payload is assembled field by field, as json.loads   *)
(* assembles it, and handed to each copy of extract_lesson_data            *)

ShortLen == 2      \* lists of every element kind are this long at most
MaxListLen == 6    \* lists of the two sampled kinds are this long at most

\* elements of the lists: records with and without id and title (one with a
\* field beyond them), and elements that are no record
LessonA == JDict(<<[k |-> "id", v |-> JStr(<<"a">>)],
                   [k |-> "title", v |-> JStr(<<"T", "1">>)],
                   [k |-> "type", v |-> JStr(<<"x">>)]>>)
LessonB == JDict(<<[k |-> "title", v |-> JStr(<<"T", "2">>)],
                   [k |-> "id", v |-> JStr(<<"b">>)]>>)
IdOnly == JDict(<<[k |-> "id", v |-> JStr(<<"c">>)]>>)
TitleOnly == JDict(<<[k |-> "title", v |-> JStr(<<"T", "1">>)]>>)
Elements == {LessonA, LessonB, IdOnly, TitleOnly, JStr(<<"s">>), JNum(5)}
SampledElements == {LessonA, IdOnly}

SeqsUpTo(S, n) == UNION {[1..m -> S] : m \in 0..n}

Lists == {JList(e) : e \in SeqsUpTo(Elements, ShortLen)}
LongLists == {JList(e) : e \in SeqsUpTo(SampledElements, MaxListLen)}

\* values of a top-level field that are no list of elements
OtherValues ==
    {JNull, JBool(TRUE), JNum(5), JNum(0), JStr(<<"s">>), JStr(<<>>), JDict(<<>>),
     JDict(<<[k |-> "items", v |-> JList(<<LessonB>>)]>>)}

\* payloads that are no object
NonDictPayloads == {JNull, JNum(5), JStr(<<"s">>), JStr(CharsOf("lessons")),
                    JList(<<>>), JList(<<JStr(CharsOf("lessons"))>>),
                    JList(<<LessonA>>)}

NotRun == [raised |-> FALSE, exc |-> "notrun", val |-> <<>>, key |-> "", method |-> 0]

LocatorIdle ==
    /\ json_data = JNull
    /\ lpc = "off"
    /\ located = [imscc |-> NotRun, und |-> NotRun, rise |-> NotRun,
                  und_debug |-> NotRun]

NoExtraction == [raised |-> FALSE, exc |-> "", found |-> FALSE, val |-> <<>>,
                 via |-> "notrun"]

ExtractorIdle ==
    /\ text = <<>>
    /\ file_ok = TRUE
    /\ jpc = "off"
    /\ extracted = [imscc |-> NoExtraction, und |-> NoExtraction,
                    rise |-> NoExtraction]

NotDecoded == [raised |-> FALSE, returned |-> JNull, shown |-> "notrun"]

DecoderIdle ==
    /\ base64_content = <<>>
    /\ dpc = "off"
    /\ decoded = [imscc |-> NotDecoded, und |-> NotDecoded, rise |-> NotDecoded]

NoDirectory == [exists |-> FALSE, dirs |-> {}, files |-> {}]
NoArchive == [exists |-> FALSE, members |-> {}, order |-> <<>>]
NotBuilt == [raised |-> FALSE, exc |-> "", returned |-> FALSE]

BuilderIdle ==
    /\ lessons = <<>>
    /\ base_url = <<>>
    /\ clean_temp = TRUE
    /\ bpc = "off"
    /\ temp_dir = NoDirectory
    /\ output = NoArchive
    /\ built = NotBuilt

\* builds that run side by side: the calls, the output directories they write
\* to and the seconds the clock can show
MaxTicks == 1
Builders == {1, 2}
OutputDirs == {"out", "other"}
ScratchNames == OutputDirs \X (0..MaxTicks)
NotCalled == [pc |-> "off", output_dir |-> "", timestamp |-> 0, clean_temp |-> TRUE,
              exc |-> ""]

ConcurrentIdle ==
    /\ now = 0
    /\ scratch = [name \in ScratchNames |-> NoDirectory]
    /\ builds = [b \in Builders |-> NotCalled]

\* no file was handed to load_lessons_from_file
NoFile == [ext |-> "", ok |-> TRUE, data |-> JNull, header |-> <<>>, rows |-> <<>>]
NotLoaded == [raised |-> FALSE, val |-> JNull]

LoaderIdle == loading = [pc |-> "off", file |-> NoFile, returned |-> NotLoaded]

\* no script run was started
PipelineIdle ==
    pipeline = [pc |-> "off", app |-> "", calls |-> <<>>, shown |-> "", uncaught |-> ""]

\* what a run of the locator leaves alone
NotLocator == <<jvars, dvars, bvars, cvars, fvars, pvars>>

\* json.loads yields the top-level value: an object, filled field by field,
\* or a value that is no object
ParseTo(payloads) ==
    /\ lpc = "start"
    /\ json_data' \in payloads
    /\ lpc' = "build"
    /\ UNCHANGED <<located, NotLocator>>

\* json.loads appends one more field to the object
AddFieldFrom(keys, values) ==
    /\ lpc = "build"
    /\ json_data.t = "dict"
    /\ \E key \in keys, value \in values :
          /\ ~HasKey(json_data, key)
          /\ json_data' = JDict(Append(json_data.kv, [k |-> key, v |-> value]))
    /\ UNCHANGED <<lpc, located, NotLocator>>

\* the call of extract_lesson_data, in each copy (and with debug set)
Locate ==
    /\ lpc = "build"
    /\ lpc' = "done"
    /\ located' = [imscc |-> extract_lesson_data_imscc(json_data),
                   und |-> extract_lesson_data_und(json_data, FALSE),
                   rise |-> extract_lesson_data_rise(json_data, FALSE),
                   und_debug |-> extract_lesson_data_und(json_data, TRUE)]
    /\ UNCHANGED <<json_data, NotLocator>>

LocateInit ==
    /\ json_data = JNull
    /\ lpc = "start"
    /\ located = [imscc |-> NotRun, und |-> NotRun, rise |-> NotRun,
                  und_debug |-> NotRun]

Parse == ParseTo({JDict(<<>>)} \cup NonDictPayloads)

AddField == AddFieldFrom({"lessons", "modules"}, Lists \cup OtherValues)

LocateNext == Parse \/ AddField \/ Locate

\* payloads of up to two fields whose lists hold every kind of element
\* the locator alone: nothing uploaded, decoded or built
LocateStart ==
    LocateInit /\ ExtractorIdle /\ DecoderIdle /\ BuilderIdle /\ ConcurrentIdle
        /\ LoaderIdle /\ PipelineIdle

SpecLocate == LocateStart /\ [][LocateNext]_vars

ParseSampled ==
    ParseTo({JDict(<<>>), JDict(<<[k |-> "lessons", v |-> JList(<<>>)]>>)})

AddSampledField == AddFieldFrom({"modules", "items"}, LongLists)

SampleNext == ParseSampled \/ AddSampledField \/ Locate

\* payloads without a usable `lessons` whose lists are longer than the sample
SpecSample == LocateStart /\ [][SampleNext]_vars

\* values of a top-level field that hold lists below the top level: under a
\* field of a record, under the first and under the fourth element of a
\* list, in a list of lists, behind a first element that is no record, next
\* to a number
NestedA == JDict(<<[k |-> "items", v |-> JList(<<LessonA>>)]>>)
NestedHalf == JDict(<<[k |-> "items", v |-> JList(<<IdOnly, LessonB>>)]>>)
DeepValues ==
    {JList(<<LessonB>>), JNum(5), JList(<<>>),
     NestedA,
     JDict(<<[k |-> "a", v |-> NestedHalf]>>),
     JList(<<NestedHalf, NestedA>>),
     JList(<<TitleOnly, TitleOnly, TitleOnly, NestedA>>),
     JList(<<JList(<<LessonA>>)>>),
     JList(<<JNum(5), NestedA>>),
     JDict(<<[k |-> "items", v |-> JList(<<LessonA, JNum(5)>>)]>>)}

ParseDeep ==
    ParseTo({JDict(<<>>), JDict(<<[k |-> "lessons", v |-> JList(<<>>)]>>)})

AddDeepField == AddFieldFrom({"course", "extra"}, DeepValues)

DeepNext == ParseDeep \/ AddDeepField \/ Locate

\* payloads whose lists of records lie below the top level
SpecDeep == LocateStart /\ [][DeepNext]_vars

----------------------------------------------------------------------------
(* Claims about the lesson locator                                         *)

\* what the claims call a record with an id, and the projection of a
\* sequence: stated over positions, not by the loop of the code
IsRecordWithId(x) == x.t = "dict" /\ \E i \in 1..Len(x.kv) : x.kv[i].k = "id"
KeptPositions(seq) == {i \in 1..Len(seq) : IsRecordWithId(seq[i])}
NthKept(seq, j) ==
    CHOOSE i \in KeptPositions(seq) :
        Cardinality({x \in KeptPositions(seq) : x <= i}) = j
KeysOf(d) == {d.kv[m].k : m \in 1..Len(d.kv)}
IsProjectionOf(out, seq) ==
    /\ Len(out) = Cardinality(KeptPositions(seq))
    /\ \A j \in 1..Len(out) :
          LET src == seq[NthKept(seq, j)]
          IN /\ out[j].t = "dict"
             /\ Len(out[j].kv) = Cardinality(KeysOf(out[j]))
             /\ KeysOf(out[j]) = KeysOf(src) \cap {"id", "title"}
             /\ \A m \in 1..Len(out[j].kv) :
                   out[j].kv[m].v = Get(src, out[j].kv[m].k)

\* the copies called without debug
PlainCopies == {"imscc", "und", "rise"}

HasLessonsList ==
    /\ json_data.t = "dict"
    /\ HasKey(json_data, "lessons")
    /\ Get(json_data, "lessons").t = "list"

\* C2 (as claimed): for every payload whose `lessons` field holds a
\* sequence, of any length including empty, every copy returns exactly the
\* projection of that sequence and no other field contributes.
C2_LessonsFieldUsedAsIs ==
    (lpc = "done" /\ HasLessonsList) =>
        \A c \in PlainCopies :
            /\ ~located[c].raised
            /\ IsProjectionOf(located[c].val, Get(json_data, "lessons").e)

\* the fraction the claims speak of: among the first min(5, length) elements,
\* those that are records with both id and title
ClaimMatches(e) ==
    Cardinality({i \in 1..Len(e) :
        i <= 5 /\ e[i].t = "dict" /\ {"id", "title"} \subseteq KeysOf(e[i])})
ClaimSample(e) == IF Len(e) < 5 THEN Len(e) ELSE 5
\* fraction of e is at least the fraction of f (both non-empty)
ClaimFractionGeq(e, f) ==
    ClaimMatches(e) * ClaimSample(f) >= ClaimMatches(f) * ClaimSample(e)

ListFields == {i \in 1..Len(json_data.kv) :
                  json_data.kv[i].v.t = "list" /\ Len(json_data.kv[i].v.e) > 0}
CandidateFields == {i \in ListFields : ClaimMatches(json_data.kv[i].v.e) > 0}
BestFields ==
    {i \in CandidateFields :
        \A j \in CandidateFields :
            ClaimFractionGeq(json_data.kv[i].v.e, json_data.kv[j].v.e)}

\* the direct lookup yields nothing: no `lessons` field, or an empty one
DirectLookupEmpty ==
    /\ json_data.t = "dict"
    /\ HasKey(json_data, "lessons") =>
          /\ HasLen(Get(json_data, "lessons"))
          /\ ~Truthy(Get(json_data, "lessons"))

\* the payload with every top-level list cut after its fifth element
CutList(v) == IF v.t = "list" /\ Len(v.e) > 5 THEN JList(SubSeq(v.e, 1, 5)) ELSE v
CutAfterFifth(d) == JDict([i \in 1..Len(d.kv) |-> [k |-> d.kv[i].k, v |-> CutList(d.kv[i].v)]])

\* C3: when the direct lookup yields nothing, the field selected is one of
\* greatest fraction among the fields of fraction > 0 (none is selected when
\* there is none), and cutting every list after its fifth element selects
\* the same field.
C3_GreatestFractionSelected ==
    (lpc = "done" /\ DirectLookupEmpty) =>
        \A c \in PlainCopies :
            /\ ~located[c].raised
            /\ IF CandidateFields = {}
               THEN located[c].method = 0 /\ located[c].val = <<>>
               ELSE /\ located[c].method = 2
                    /\ \E i \in BestFields : located[c].key = json_data.kv[i].k
            /\ located[c].key = extract_lesson_data_imscc(CutAfterFifth(json_data)).key
            /\ located[c].key = extract_lesson_data_und(CutAfterFifth(json_data), FALSE).key

\* C3 witness: a later field of greater fraction, longer than the sample and
\* with a sixth element that would change its fraction, is the one selected
C3_Witness ==
    /\ lpc = "done" /\ DirectLookupEmpty
    /\ \E i, j \in CandidateFields :
          /\ i < j
          /\ ~ClaimFractionGeq(json_data.kv[i].v.e, json_data.kv[j].v.e)
          /\ Len(json_data.kv[j].v.e) > 5
          /\ json_data.kv[j].v.e[6] = IdOnly
          /\ json_data.kv[j].k = "modules"
          /\ located.imscc.key = "modules"
          /\ located.imscc.method = 2

\* C4: when several candidate fields have the same greatest fraction, the
\* one selected is the first of them in the payload's field order.
C4_TieKeepsFieldOrder ==
    (lpc = "done" /\ DirectLookupEmpty /\ CandidateFields # {}) =>
        \A c \in PlainCopies :
            /\ ~located[c].raised
            /\ \E i \in BestFields :
                  /\ \A j \in BestFields : i <= j
                  /\ located[c].key = json_data.kv[i].k
                  /\ located[c].val = ProjectAll(json_data.kv[i].v.e)

\* C4 witness: two different lists of the same fraction; the first is taken
C4_Witness ==
    /\ lpc = "done" /\ DirectLookupEmpty
    /\ Cardinality(BestFields) = 2
    /\ \E i, j \in BestFields :
          /\ i < j
          /\ Len(json_data.kv[i].v.e) # Len(json_data.kv[j].v.e)
          /\ located.und.key = json_data.kv[i].k
          /\ located.und.val # ProjectAll(json_data.kv[j].v.e)

\* C5 (as claimed): extract_lesson_data never raises; here on payloads that
\* are objects, whatever their fields hold.
C5_NeverRaises ==
    (lpc = "done" /\ json_data.t = "dict") =>
        \A c \in PlainCopies : ~located[c].raised

\* the sequence a copy selected, when it selected a top-level list
SelectedField(o) == Get(json_data, o.key)
SelectedList(o) ==
    /\ ~o.raised
    /\ o.method \in {1, 2}
    /\ SelectedField(o).t = "list"

\* C6: the list returned is the selected sequence without the elements that
\* are no record with an id, each kept record projected to its id and (if
\* present) title, in source order and with duplicates kept.
C6_ProjectionOfSelected ==
    lpc = "done" =>
        \A c \in PlainCopies \cup {"und_debug"} :
            SelectedList(located[c]) =>
                IsProjectionOf(located[c].val, SelectedField(located[c]).e)

\* C6 witness: a selected list of two equal records with a third field, both
\* kept and projected; the same payload has a dropped element elsewhere
C6_Witness ==
    /\ lpc = "done"
    /\ SelectedList(located.imscc)
    /\ SelectedField(located.imscc).e = <<LessonA, LessonA>>
    /\ Len(located.imscc.val) = 2
    /\ located.imscc.val[1] = located.imscc.val[2]
    /\ KeysOf(located.imscc.val[1]) = {"id", "title"}

----------------------------------------------------------------------------
(* extract_jsonp_content: the search for the wrapper call                  *)
(*                                                                         *)
(* The file is a sequence of tokens: "F" is the name __resolveJsonp, "K"   *)
(* the word course:und, "Q" a double quote, " " white space, "x" and "y"   *)
(* payload characters, and "(", ")", "," themselves.                       *)

ExtractGroup(val, via) ==
    [raised |-> FALSE, exc |-> "", found |-> TRUE, val |-> val, via |-> via]
ExtractNone(via) ==
    [raised |-> FALSE, exc |-> "", found |-> FALSE, val |-> <<>>, via |-> via]
ExtractRaise(exc) ==
    [raised |-> TRUE, exc |-> exc, found |-> FALSE, val |-> <<>>, via |-> "raise"]

NoMatch == [ok |-> FALSE, group1 |-> <<>>]
Match(group1) == [ok |-> TRUE, group1 |-> group1]

\* a negated class [^c]*, greedy: the position after the longest run from i
\* of tokens outside stop
RECURSIVE SkipUntil(_, _, _)
SkipUntil(s, i, stop) ==
    IF i > Len(s) \/ s[i] \in stop THEN i ELSE SkipUntil(s, i + 1, stop)

\* a class \s*, greedy: the position after the longest run from i of tokens in cls
RECURSIVE SkipWhile(_, _, _)
SkipWhile(s, i, cls) ==
    IF i > Len(s) \/ s[i] \notin cls THEN i ELSE SkipWhile(s, i + 1, cls)

\* the literal lit at position i
LiteralAt(s, i, lit) ==
    i + Len(lit) - 1 <= Len(s) /\ SubSeq(s, i, i + Len(lit) - 1) = lit

\* "([^"]+)"\) at position q, the end of both patterns
QuotedGroupAt(s, q) ==
    LET p == q + 1
        e == SkipUntil(s, p, {"Q"})
    IN IF LiteralAt(s, q, <<"Q">>) /\ e > p /\ LiteralAt(s, e, <<"Q", ")">>)
       THEN Match(SubSeq(s, p, e - 1))
       ELSE NoMatch

\* pattern = r'__resolveJsonp\("course:und","([^"]+)"\)' tried at position i
StrictMatchAt(s, i) ==
    IF LiteralAt(s, i, <<"F", "(", "Q", "K", "Q", ",">>)
    THEN QuotedGroupAt(s, i + 6)
    ELSE NoMatch

\* alternative_pattern = r'__resolveJsonp\([^,]+,\s*"([^"]+)"\)' tried at i
LooseMatchAt(s, i) ==
    LET a == i + 2
        c == SkipUntil(s, a, {","})
    IN IF LiteralAt(s, i, <<"F", "(">>) /\ c > a /\ LiteralAt(s, c, <<",">>)
       THEN QuotedGroupAt(s, SkipWhile(s, c + 1, {" "}))
       ELSE NoMatch

\* the regular expression named pattern or alternative_pattern tried at i
MatchAt(pattern, s, i) ==
    IF pattern = "pattern" THEN StrictMatchAt(s, i) ELSE LooseMatchAt(s, i)

\* re.search: the match at the leftmost position that has one
re_search(pattern, s) ==
    LET hits == {i \in 1..Len(s) : MatchAt(pattern, s, i).ok}
    IN IF hits = {} THEN NoMatch
       ELSE MatchAt(pattern, s, CHOOSE i \in hits : \A j \in hits : i <= j)

\* `if alt_match: return alt_match.group(1)` left without its guard
AltResult_Unguarded(alt_match) ==
    IF alt_match.ok THEN ExtractGroup(alt_match.group1, "alt")
    ELSE ExtractRaise("AttributeError")

\* if alt_match: return alt_match.group(1), else fall through to return None
AltResult(alt_match) ==
    IF alt_match.ok THEN ExtractGroup(alt_match.group1, "alt")
    ELSE ExtractNone("none")

\* the two searches in the other order: the looser pattern tried first
SearchBoth_AltFirst(file_content) ==
    LET alt_match == re_search("alternative_pattern", file_content)
        match == re_search("pattern", file_content)
    IN IF alt_match.ok THEN ExtractGroup(alt_match.group1, "alt")
       ELSE IF match.ok THEN ExtractGroup(match.group1, "strict")
       ELSE ExtractNone("none")

\* the body shared by the three copies: the strict pattern, then the looser one
SearchBoth(file_content) ==
    LET match == re_search("pattern", file_content)
    IN IF match.ok THEN ExtractGroup(match.group1, "strict")
       ELSE AltResult(re_search("alternative_pattern", file_content))

extract_jsonp_content_und(file_content) == SearchBoth(file_content)

extract_jsonp_content_rise(file_content) == SearchBoth(file_content)

\* imscc_creator reads the file itself, all of it inside try/except Exception
extract_jsonp_content_imscc(file_content, readable) ==
    LET r == SearchBoth(file_content)
    IN IF ~readable \/ r.raised THEN ExtractNone("except") ELSE r

----------------------------------------------------------------------------
(* A run of the wrapper search: a file written chunk by chunk, then read   *)

MaxChunks == 4

StrictCall == <<"F", "(", "Q", "K", "Q", ",", "Q", "x", "Q", ")">>
LooseCall == <<"F", "(", "x", ",", "Q", "y", "Q", ")">>
Chunks == {<<"F", "(">>, <<"Q", "K", "Q">>, <<",">>, <<"Q">>, <<"x">>, <<"y">>,
           <<" ">>, <<")">>, <<"Q", ")">>, <<"F", "(", "Q", "K", "Q", ",", "Q">>,
           StrictCall, LooseCall}

RECURSIVE Flatten(_)
Flatten(chunks) ==
    IF chunks = <<>> THEN <<>> ELSE Head(chunks) \o Flatten(Tail(chunks))

\* what is left alone by a run of the wrapper search
NotExtractor == <<lvars, dvars, bvars, cvars, fvars, pvars>>

ExtractInit ==
    /\ text = <<>>
    /\ file_ok = TRUE
    /\ jpc = "write"
    /\ extracted = [imscc |-> NoExtraction, und |-> NoExtraction,
                    rise |-> NoExtraction]

WriteChunk ==
    /\ jpc = "write"
    /\ Len(text) < MaxChunks
    /\ \E chunk \in Chunks : text' = Append(text, chunk)
    /\ UNCHANGED <<file_ok, jpc, extracted, NotExtractor>>

\* the three copies are called on the file; imscc_creator's open or read of it
\* may raise
ExtractJsonp ==
    /\ jpc = "write"
    /\ jpc' = "done"
    /\ \E readable \in BOOLEAN :
          /\ file_ok' = readable
          /\ extracted' =
                [imscc |-> extract_jsonp_content_imscc(Flatten(text), readable),
                 und |-> extract_jsonp_content_und(Flatten(text)),
                 rise |-> extract_jsonp_content_rise(Flatten(text))]
    /\ UNCHANGED <<text, NotExtractor>>

ExtractNext == WriteChunk \/ ExtractJsonp

ExtractStart ==
    ExtractInit /\ LocatorIdle /\ DecoderIdle /\ BuilderIdle /\ ConcurrentIdle
        /\ LoaderIdle /\ PipelineIdle

SpecExtract == ExtractStart /\ [][ExtractNext]_vars

----------------------------------------------------------------------------
(* Claims about extract_jsonp_content                                      *)

file_content == Flatten(text)

Positions == 1..Len(file_content)

\* a quote at q opens a payload of one or more characters without a quote,
\* closed by the quote at e and followed by the parenthesis
ClaimQuotedEnds(q) ==
    {e \in (q + 2)..(Len(file_content) - 1) :
        /\ file_content[q] = "Q"
        /\ \A j \in (q + 1)..(e - 1) : file_content[j] # "Q"
        /\ file_content[e] = "Q" /\ file_content[e + 1] = ")"}
ClaimPayloads(q) == {SubSeq(file_content, q + 1, e - 1) : e \in ClaimQuotedEnds(q)}

\* the payloads the strict pattern captures when matched at position i
StrictGroups(i) ==
    IF /\ i + 6 <= Len(file_content)
       /\ SubSeq(file_content, i, i + 5) = <<"F", "(", "Q", "K", "Q", ",">>
    THEN ClaimPayloads(i + 6)
    ELSE {}

\* the payloads the looser pattern captures when matched at position i: after
\* the name and the parenthesis, one or more characters without a comma, the
\* comma at c, white space, and the quoted payload from q on
LooseGroups(i) ==
    UNION {ClaimPayloads(q) :
            q \in {q \in (i + 4)..Len(file_content) :
                    /\ file_content[i] = "F" /\ file_content[i + 1] = "("
                    /\ \E c \in (i + 3)..(q - 1) :
                          /\ \A j \in (i + 2)..(c - 1) : file_content[j] # ","
                          /\ file_content[c] = ","
                          /\ \A j \in (c + 1)..(q - 1) : file_content[j] = " "}}

StrictHits == {i \in Positions : StrictGroups(i) # {}}
LooseHits == {i \in Positions : LooseGroups(i) # {}}
FirstStrict == CHOOSE i \in StrictHits : \A j \in StrictHits : i <= j
StrictCapture == CHOOSE g \in StrictGroups(FirstStrict) : TRUE

\* the copies that got to search the text
Searched == {"und", "rise"} \cup (IF file_ok THEN {"imscc"} ELSE {})

\* C7: whenever the strict pattern matches somewhere in the text, each copy of
\* extract_jsonp_content returns the capture of its leftmost match, whatever
\* the looser pattern matches; a capture of the looser pattern is returned
\* only for a text the strict pattern matches nowhere.
C7_StrictPatternPreferred ==
    jpc = "done" =>
        \A c \in Searched :
            /\ StrictHits # {} =>
                  extracted[c] = ExtractGroup(StrictCapture, "strict")
            /\ extracted[c].via = "alt" => StrictHits = {}

\* the looser pattern matches before the strict one and captures another string
C7_Witness ==
    /\ jpc = "done"
    /\ file_ok
    /\ StrictHits # {}
    /\ \E i \in LooseHits : i < FirstStrict /\ StrictCapture \notin LooseGroups(i)
    /\ \A c \in Searched : extracted[c].val = StrictCapture

\* C8: for a text that neither pattern matches, each copy of
\* extract_jsonp_content returns None and none raises.
C8_NotFoundIsAValue ==
    (jpc = "done" /\ StrictHits = {} /\ LooseHits = {}) =>
        \A c \in {"imscc", "und", "rise"} :
            ~extracted[c].raised /\ ~extracted[c].found

\* a text with the wrapper's name in it that neither pattern matches
C8_Witness ==
    /\ jpc = "done"
    /\ file_ok
    /\ StrictHits = {} /\ LooseHits = {}
    /\ \E i \in Positions : file_content[i] = "F"
    /\ \A c \in {"imscc", "und", "rise"} : extracted[c] = ExtractNone("none")

----------------------------------------------------------------------------
(* decode_base64_content: base64.b64decode, bytes.decode('utf-8'),         *)
(* json.loads, all inside try/except Exception                             *)
(*                                                                         *)
(* A symbol of the base64 string is 0..63 (a character of the alphabet,    *)
(* by its value), Pad (=), Junk (another ASCII character) or NonAscii.     *)
(* Bytes and code points are numbers.                                      *)

Pad == 64
Junk == 65
NonAscii == 66

Failed(exc) == [ok |-> FALSE, exc |-> exc, val |-> <<>>]
Done(val) == [ok |-> TRUE, exc |-> "", val |-> val]

\* binascii.a2b_base64, not strict: one character consumed
A2bStep(st, c) ==
    IF c = Pad
    THEN IF st.quad_pos >= 2
         THEN [st EXCEPT !.pads = @ + 1, !.stop = st.quad_pos + st.pads + 1 >= 4]
         ELSE st
    ELSE IF c >= 64 THEN st
    ELSE CASE st.quad_pos = 0 ->
                [st EXCEPT !.pads = 0, !.quad_pos = 1, !.leftchar = c]
           [] st.quad_pos = 1 ->
                [st EXCEPT !.pads = 0, !.quad_pos = 2, !.leftchar = c % 16,
                           !.out = Append(@, st.leftchar * 4 + c \div 16)]
           [] st.quad_pos = 2 ->
                [st EXCEPT !.pads = 0, !.quad_pos = 3, !.leftchar = c % 4,
                           !.out = Append(@, st.leftchar * 16 + c \div 4)]
           [] st.quad_pos = 3 ->
                [st EXCEPT !.pads = 0, !.quad_pos = 0, !.leftchar = 0,
                           !.out = Append(@, st.leftchar * 64 + c)]

RECURSIVE A2bRun(_, _, _)
A2bRun(s, i, st) ==
    IF i > Len(s) \/ st.stop THEN st ELSE A2bRun(s, i + 1, A2bStep(st, s[i]))

\* base64.b64decode(s) for a str s: s.encode('ascii'), then a2b_base64
b64decode(s) ==
    LET st == A2bRun(s, 1, [quad_pos |-> 0, leftchar |-> 0, pads |-> 0,
                            stop |-> FALSE, out |-> <<>>])
    IN IF \E i \in 1..Len(s) : s[i] = NonAscii THEN Failed("ValueError")
       ELSE IF ~st.stop /\ st.quad_pos # 0 THEN Failed("binascii.Error")
       ELSE Done(st.out)

IsContinuation(b) == b >= 128 /\ b <= 191

\* the number of bytes of the UTF-8 sequence led by byte b, 0 for no lead byte
Utf8Length(b) ==
    IF b < 128 THEN 1
    ELSE IF b >= 194 /\ b <= 223 THEN 2
    ELSE IF b >= 224 /\ b <= 239 THEN 3
    ELSE IF b >= 240 /\ b <= 244 THEN 4
    ELSE 0

\* the second byte of a sequence is further restricted after E0, ED, F0, F4
SecondByteOk(lead, b) ==
    /\ IsContinuation(b)
    /\ lead = 224 => b >= 160
    /\ lead = 237 => b <= 159
    /\ lead = 240 => b >= 144
    /\ lead = 244 => b <= 143

RECURSIVE Utf8Tail(_, _, _, _)
Utf8Tail(bytes, i, n, acc) ==
    IF n = 0 THEN acc ELSE Utf8Tail(bytes, i + 1, n - 1, acc * 64 + (bytes[i] % 64))

\* bytes.decode('utf-8'), strict: the code points, or UnicodeDecodeError
RECURSIVE Utf8Decode(_, _, _)
Utf8Decode(bytes, i, acc) ==
    IF i > Len(bytes) THEN Done(acc)
    ELSE LET lead == bytes[i]
             n == Utf8Length(lead)
         IN IF n = 0 \/ i + n - 1 > Len(bytes) THEN Failed("UnicodeDecodeError")
            ELSE IF n = 1 THEN Utf8Decode(bytes, i + 1, Append(acc, lead))
            ELSE IF /\ SecondByteOk(lead, bytes[i + 1])
                    /\ \A j \in (i + 2)..(i + n - 1) : IsContinuation(bytes[j])
                 THEN Utf8Decode(bytes, i + n,
                        Append(acc, Utf8Tail(bytes, i + 1, n - 1,
                                             lead % (IF n = 2 THEN 32
                                                     ELSE IF n = 3 THEN 16 ELSE 8))))
                 ELSE Failed("UnicodeDecodeError")

\* decoding with the fallback the code does not have: latin-1 takes every
\* byte as the code point of the same number
DecodeText_Fallback(decoded_bytes) ==
    IF Utf8Decode(decoded_bytes, 1, <<>>).ok THEN Utf8Decode(decoded_bytes, 1, <<>>)
    ELSE Done(decoded_bytes)

\* json_str = decoded_bytes.decode('utf-8')
DecodeText(decoded_bytes) == Utf8Decode(decoded_bytes, 1, <<>>)

\* the characters of code points 32 to 126 (two of them by name)
Ascii ==
  <<" ", "!", "\"", "#", "$", "%", "&", "'", "(", ")", "*", "+", ",", "-",
    ".", "/", "0", "1", "2", "3", "4", "5", "6", "7", "8", "9", ":", ";",
    "<", "=", ">", "?", "@", "A", "B", "C", "D", "E", "F", "G", "H", "I",
    "J", "K", "L", "M", "N", "O", "P", "Q", "R", "S", "T", "U", "V", "W",
    "X", "Y", "Z", "[", "backslash", "]", "^", "_", "backtick", "a", "b", "c", "d", "e",
    "f", "g", "h", "i", "j", "k", "l", "m", "n", "o", "p", "q", "r", "s",
    "t", "u", "v", "w", "x", "y", "z", "{", "|", "}", "~">>

\* chr(n) and ord(c) for these characters
Chr(n) == Ascii[n - 31]
Ord(c) == 31 + CHOOSE i \in 1..Len(Ascii) : Ascii[i] = c

\* the name of an object's field, as the string the model's dicts are keyed by
RECURSIVE KeyOf(_)
KeyOf(s) == IF s = <<>> THEN "" ELSE Chr(s[1]) \o KeyOf(Tail(s))

\* d[key] = value while an object is parsed: a repeated name keeps its place
\* and takes the later value
PutField(kv, key, value) ==
    IF \E i \in 1..Len(kv) : kv[i].k = key
    THEN [i \in 1..Len(kv) |-> IF kv[i].k = key THEN [k |-> key, v |-> value] ELSE kv[i]]
    ELSE Append(kv, [k |-> key, v |-> value])

\* json.loads on code points: numbers without sign, fraction or exponent,
\* strings without escapes, arrays, objects and null
IsWhitespace(c) == c \in {32, 9, 10, 13}
IsDigit(c) == c >= 48 /\ c <= 57
NoValue == [ok |-> FALSE, val |-> JNull, next |-> 0]
Value(val, next) == [ok |-> TRUE, val |-> val, next |-> next]

RECURSIVE SkipWhitespace(_, _)
SkipWhitespace(s, i) ==
    IF i <= Len(s) /\ IsWhitespace(s[i]) THEN SkipWhitespace(s, i + 1) ELSE i

RECURSIVE ScanDigits(_, _, _)
ScanDigits(s, i, n) ==
    IF i <= Len(s) /\ IsDigit(s[i]) THEN ScanDigits(s, i + 1, 10 * n + (s[i] - 48))
    ELSE Value(JNum(n), i)

\* the characters of a string up to its closing quote
RECURSIVE ScanString(_, _, _)
ScanString(s, i, acc) ==
    IF i > Len(s) \/ s[i] < 32 \/ s[i] = 92 THEN NoValue
    ELSE IF s[i] = 34 THEN Value(JStr(acc), i + 1)
    ELSE ScanString(s, i + 1, Append(acc, s[i]))

RECURSIVE ScanValue(_, _)
RECURSIVE ScanArray(_, _, _)
RECURSIVE ScanObject(_, _, _)
ScanArray(s, i, acc) ==
    LET v == ScanValue(s, i)
        j == SkipWhitespace(s, v.next)
    IN IF ~v.ok \/ j > Len(s) THEN NoValue
       ELSE IF s[j] = 93 THEN Value(JList(Append(acc, v.val)), j + 1)
       ELSE IF s[j] = 44 THEN ScanArray(s, SkipWhitespace(s, j + 1), Append(acc, v.val))
       ELSE NoValue

\* the fields of an object, from the name at i on
ScanObject(s, i, acc) ==
    LET name == IF i <= Len(s) /\ s[i] = 34 THEN ScanString(s, i + 1, <<>>) ELSE NoValue
        c == SkipWhitespace(s, name.next)
        v == ScanValue(s, SkipWhitespace(s, c + 1))
        j == SkipWhitespace(s, v.next)
    IN IF ~name.ok \/ c > Len(s) \/ s[c] # 58 THEN NoValue
       ELSE IF ~v.ok \/ j > Len(s) THEN NoValue
       ELSE IF s[j] = 125
            THEN Value(JDict(PutField(acc, KeyOf(name.val.s), v.val)), j + 1)
       ELSE IF s[j] = 44
            THEN ScanObject(s, SkipWhitespace(s, j + 1),
                            PutField(acc, KeyOf(name.val.s), v.val))
       ELSE NoValue

ScanValue(s, i) ==
    IF i > Len(s) THEN NoValue
    ELSE IF s[i] = 34 THEN ScanString(s, i + 1, <<>>)
    ELSE IF s[i] = 48 THEN Value(JNum(0), i + 1)
    ELSE IF IsDigit(s[i]) THEN ScanDigits(s, i, 0)
    ELSE IF s[i] = 91
         THEN LET j == SkipWhitespace(s, i + 1)
              IN IF j <= Len(s) /\ s[j] = 93 THEN Value(JList(<<>>), j + 1)
                 ELSE ScanArray(s, j, <<>>)
    ELSE IF s[i] = 123
         THEN LET j == SkipWhitespace(s, i + 1)
              IN IF j <= Len(s) /\ s[j] = 125 THEN Value(JDict(<<>>), j + 1)
                 ELSE ScanObject(s, j, <<>>)
    ELSE IF i + 3 <= Len(s) /\ SubSeq(s, i, i + 3) = <<110, 117, 108, 108>>
         THEN Value(JNull, i + 4)
    ELSE NoValue

json_loads(s) ==
    LET v == ScanValue(s, SkipWhitespace(s, 1))
    IN IF v.ok /\ SkipWhitespace(s, v.next) > Len(s) THEN Done(v.val)
       ELSE Failed("JSONDecodeError")

\* an except clause that catches the base64 errors only
Caught_Base64Only(exc) == exc \in {"binascii.Error", "ValueError"}

\* except Exception catches every exception the three steps raise
Caught(exc) == exc \in {"binascii.Error", "ValueError", "UnicodeDecodeError",
                        "JSONDecodeError"}

\* the try block: the first step that raises ends it
TryDecode(base64_content_) ==
    LET decoded_bytes == b64decode(base64_content_)
        json_str == DecodeText(decoded_bytes.val)
        json_data_ == json_loads(json_str.val)
    IN IF ~decoded_bytes.ok THEN decoded_bytes
       ELSE IF ~json_str.ok THEN json_str
       ELSE json_data_

\* the exception is shown and None returned, or the parsed value returned
DecodeOutcome(base64_content_) ==
    LET r == TryDecode(base64_content_)
    IN IF r.ok THEN [raised |-> FALSE, returned |-> r.val, shown |-> ""]
       ELSE IF Caught(r.exc) THEN [raised |-> FALSE, returned |-> JNull, shown |-> r.exc]
       ELSE [raised |-> TRUE, returned |-> JNull, shown |-> ""]

decode_base64_content_imscc(base64_content_) == DecodeOutcome(base64_content_)

decode_base64_content_und(base64_content_) == DecodeOutcome(base64_content_)

decode_base64_content_rise(base64_content_) == DecodeOutcome(base64_content_)

----------------------------------------------------------------------------
(* Runs of the decoder: a payload is encoded and uploaded, perhaps damaged *)
(* on the way, and decoded; then the next one                              *)

MaxBytes == 3

\* the bytes of " 1 [ ] and of the UTF-8 and latin-1 forms of e-acute
Bytes == {34, 49, 91, 93, 195, 169, 233}
ByteStrings == SeqsUpTo(Bytes, MaxBytes)

\* the standard encoding, as a producer of und.js writes it
RECURSIVE B64Encode(_)
B64Encode(bytes) ==
    IF Len(bytes) = 0 THEN <<>>
    ELSE IF Len(bytes) = 1
         THEN <<bytes[1] \div 4, (bytes[1] % 4) * 16, Pad, Pad>>
    ELSE IF Len(bytes) = 2
         THEN <<bytes[1] \div 4, (bytes[1] % 4) * 16 + bytes[2] \div 16,
                (bytes[2] % 16) * 4, Pad>>
    ELSE <<bytes[1] \div 4, (bytes[1] % 4) * 16 + bytes[2] \div 16,
           (bytes[2] % 16) * 4 + bytes[3] \div 64, bytes[3] % 64>>
         \o B64Encode(SubSeq(bytes, 4, Len(bytes)))

Damages == {"strip", "cut", "junk", "nonascii", "extra"}

RECURSIVE StripPads(_)
StripPads(s) ==
    IF s # <<>> /\ s[Len(s)] = Pad THEN StripPads(SubSeq(s, 1, Len(s) - 1)) ELSE s

Damage(s, how) ==
    CASE how = "strip" -> StripPads(s)
      [] how = "cut" -> SubSeq(s, 1, Len(s) - 1)
      [] how = "junk" -> <<Junk>> \o s
      [] how = "nonascii" -> Append(s, NonAscii)
      [] how = "extra" -> Append(s, 0)

\* what is left alone by a run of the decoder
NotDecoder == <<lvars, jvars, bvars, cvars, fvars, pvars>>

DecodeInit ==
    /\ base64_content = <<>>
    /\ dpc = "new"
    /\ decoded = [imscc |-> NotDecoded, und |-> NotDecoded, rise |-> NotDecoded]

Upload ==
    /\ dpc \in {"new", "called"}
    /\ \E bytes \in ByteStrings : base64_content' = B64Encode(bytes)
    /\ dpc' = "ready"
    /\ UNCHANGED <<decoded, NotDecoder>>

Corrupt ==
    /\ dpc = "ready"
    /\ \E how \in Damages : base64_content' = Damage(base64_content, how)
    /\ dpc' = "damaged"
    /\ UNCHANGED <<decoded, NotDecoder>>

Decode ==
    /\ dpc \in {"ready", "damaged"}
    /\ dpc' = "called"
    /\ decoded' = [imscc |-> decode_base64_content_imscc(base64_content),
                   und |-> decode_base64_content_und(base64_content),
                   rise |-> decode_base64_content_rise(base64_content)]
    /\ UNCHANGED <<base64_content, NotDecoder>>

DecodeNext == Upload \/ Corrupt \/ Decode

DecodeStart ==
    DecodeInit /\ LocatorIdle /\ ExtractorIdle /\ BuilderIdle /\ ConcurrentIdle
        /\ LoaderIdle /\ PipelineIdle

SpecDecode == DecodeStart /\ [][DecodeNext]_vars

----------------------------------------------------------------------------
(* Claims about decode_base64_content                                      *)

Copies == {"imscc", "und", "rise"}

\* well-formed UTF-8, by the table of byte sequences of the Unicode standard
RECURSIVE WellFormedUtf8(_)
WellFormedUtf8(b) ==
    LET In(i, lo, hi) == i <= Len(b) /\ b[i] >= lo /\ b[i] <= hi
        Rest(n) == WellFormedUtf8(SubSeq(b, n + 1, Len(b)))
    IN \/ b = <<>>
       \/ In(1, 0, 127) /\ Rest(1)
       \/ In(1, 194, 223) /\ In(2, 128, 191) /\ Rest(2)
       \/ In(1, 224, 224) /\ In(2, 160, 191) /\ In(3, 128, 191) /\ Rest(3)
       \/ In(1, 225, 236) /\ In(2, 128, 191) /\ In(3, 128, 191) /\ Rest(3)
       \/ In(1, 237, 237) /\ In(2, 128, 159) /\ In(3, 128, 191) /\ Rest(3)
       \/ In(1, 238, 239) /\ In(2, 128, 191) /\ In(3, 128, 191) /\ Rest(3)
       \/ In(1, 240, 240) /\ In(2, 144, 191) /\ In(3, 128, 191)
            /\ In(4, 128, 191) /\ Rest(4)
       \/ In(1, 241, 243) /\ In(2, 128, 191) /\ In(3, 128, 191)
            /\ In(4, 128, 191) /\ Rest(4)
       \/ In(1, 244, 244) /\ In(2, 128, 143) /\ In(3, 128, 191)
            /\ In(4, 128, 191) /\ Rest(4)

\* latin-1 (and iso-8859-1, its other name) decodes every byte, to the code
\* point of the same number
Latin1(bytes) == [i \in 1..Len(bytes) |-> bytes[i]]

TheBytes == b64decode(base64_content)

\* the step of the last call that failed
FailedStep ==
    IF ~TheBytes.ok THEN "base64"
    ELSE IF ~WellFormedUtf8(TheBytes.val) THEN "text"
    ELSE IF ~json_loads(DecodeText(TheBytes.val).val).ok THEN "json"
    ELSE "none"

ShownFor(step) ==
    CASE step = "base64" -> {"binascii.Error", "ValueError"}
      [] step = "text" -> {"UnicodeDecodeError"}
      [] step = "json" -> {"JSONDecodeError"}
      [] step = "none" -> {""}

StepShown(exc) == CHOOSE step \in {"base64", "text", "json", "none"} : exc \in ShownFor(step)

\* C9 as stated: two calls that fail at different steps hand different
\* outcomes to their callers.
C9_DistinctFailureReasons ==
    [][\A c \in Copies :
          (/\ dpc' = "called" /\ dpc # "called"
           /\ decoded[c].shown \notin {"notrun", ""}
           /\ decoded'[c].shown # ""
           /\ StepShown(decoded[c].shown) # StepShown(decoded'[c].shown))
          => decoded'[c].returned # decoded[c].returned]_vars

\* C9, amended: a call that fails at any of the three steps raises nothing
\* and returns None whichever step it was; the step shows only in the
\* exception text that the call prints or displays.
C9_EveryFailureReturnsNone ==
    dpc = "called" =>
        \A c \in Copies :
            /\ ~decoded[c].raised
            /\ decoded[c].shown \in ShownFor(FailedStep)
            /\ FailedStep # "none" => decoded[c].returned = JNull

\* a call that failed at the JSON step
C9_Witness ==
    /\ dpc = "called"
    /\ FailedStep = "json"
    /\ \A c \in Copies : decoded[c] = [raised |-> FALSE, returned |-> JNull,
                                       shown |-> "JSONDecodeError"]

\* the bytes decoded from base64 are not UTF-8
NotUtf8 == dpc = "called" /\ TheBytes.ok /\ ~WellFormedUtf8(TheBytes.val)

----------------------------------------------------------------------------
(* imscc_creator.create_package and the steps it calls                     *)
(*                                                                         *)
(* A file of the scratch directory is [dir, name, content]; dir is "" for  *)
(* the root. uuid4 values are numbered in the order they are drawn.        *)

UpperCase == <<"A", "B", "C", "D", "E", "F", "G", "H", "I", "J", "K", "L", "M",
               "N", "O", "P", "Q", "R", "S", "T", "U", "V", "W", "X", "Y", "Z">>
LowerCase == <<"a", "b", "c", "d", "e", "f", "g", "h", "i", "j", "k", "l", "m",
               "n", "o", "p", "q", "r", "s", "t", "u", "v", "w", "x", "y", "z">>
DigitChars == {"0", "1", "2", "3", "4", "5", "6", "7", "8", "9"}

\* str.lower, character by character
Lower(c) ==
    IF \E i \in DOMAIN UpperCase : UpperCase[i] = c
    THEN LowerCase[CHOOSE i \in DOMAIN UpperCase : UpperCase[i] = c]
    ELSE c
str_lower(str) == [i \in 1..Len(str) |-> Lower(str[i])]

\* the class [a-z0-9]
IsFilenameChar(c) == c \in DigitChars \/ \E i \in DOMAIN LowerCase : LowerCase[i] = c

\* a substitution that gives every other character its own hyphen
RECURSIVE SubRuns_EachChar(_, _)
SubRuns_EachChar(str, in_run) ==
    IF str = <<>> THEN <<>>
    ELSE IF IsFilenameChar(Head(str))
         THEN <<Head(str)>> \o SubRuns_EachChar(Tail(str), FALSE)
    ELSE <<"-">> \o SubRuns_EachChar(Tail(str), TRUE)

\* re.sub(r'[^a-z0-9]+', '-', str): each run of other characters becomes one
\* hyphen; in_run says that the character before was one of the run
RECURSIVE SubRuns(_, _)
SubRuns(str, in_run) ==
    IF str = <<>> THEN <<>>
    ELSE IF IsFilenameChar(Head(str)) THEN <<Head(str)>> \o SubRuns(Tail(str), FALSE)
    ELSE IF in_run THEN SubRuns(Tail(str), TRUE)
    ELSE <<"-">> \o SubRuns(Tail(str), TRUE)

\* str.strip('-')
RECURSIVE StripHyphens(_)
StripHyphens(str) ==
    IF str # <<>> /\ Head(str) = "-" THEN StripHyphens(Tail(str))
    ELSE IF str # <<>> /\ str[Len(str)] = "-"
         THEN StripHyphens(SubSeq(str, 1, Len(str) - 1))
    ELSE str

\* the filename made from a title
FilenameOf(lesson_title) ==
    StripHyphens(SubRuns(str_lower(lesson_title), FALSE)) \o <<".", "h", "t", "m", "l">>

\* html.escape(str): & < > " ' become entities
EscapeChar(c) ==
    CASE c = "&" -> <<"&", "a", "m", "p", ";">>
      [] c = "<" -> <<"&", "l", "t", ";">>
      [] c = ">" -> <<"&", "g", "t", ";">>
      [] c = "\"" -> <<"&", "q", "u", "o", "t", ";">>
      [] c = "'" -> <<"&", "#", "x", "2", "7", ";">>
      [] OTHER -> <<c>>
RECURSIVE html_escape(_)
html_escape(str) ==
    IF str = <<>> THEN <<>> ELSE EscapeChar(Head(str)) \o html_escape(Tail(str))

\* a default title that is the empty string
UntitledLesson_Empty == JStr(<<>>)

UntitledLesson == JStr(<<"U", "n", "t", "i", "t", "l", "e", "d", " ",
                         "L", "e", "s", "s", "o", "n">>)

\* lesson.get(key, default)
GetOr(lesson, key, default) == IF HasKey(lesson, key) THEN Get(lesson, key) ELSE default

\* an assignment that drops the record's other fields
SetKey_Only(lesson, key, value) == JDict(<<[k |-> key, v |-> value]>>)

\* lesson[key] = value: an existing key keeps its place, a new one goes last
SetKey(lesson, key, value) ==
    IF HasKey(lesson, key)
    THEN JDict([i \in 1..Len(lesson.kv) |->
                  IF lesson.kv[i].k = key THEN [k |-> key, v |-> value]
                  ELSE lesson.kv[i]])
    ELSE JDict(Append(lesson.kv, [k |-> key, v |-> value]))

\* "g" and the letters and digits of a uuid4, the n-th drawn in this build
Uuid(n) == JStr(<<"g", ToString(n)>>)

\* open(path, 'w') and write: the file replaces one of the same path
WriteFile(dir_, dir, name, content) ==
    [dir_ EXCEPT !.files = {f \in @ : ~(f.dir = dir /\ f.name = name)}
                             \cup {[dir |-> dir, name |-> name, content |-> content]}]

\* create_directory_structure: the scratch directory and its two directories
create_directory_structure(dir_) ==
    [exists |-> TRUE, dirs |-> dir_.dirs \cup {"wiki_content", "course_settings"},
     files |-> dir_.files]

\* a first loop whose filenames carry the lesson's place in the list
RECURSIVE ManifestItems_Numbered(_, _)
ManifestItems_Numbered(st, i) ==
    IF i > Len(st.lessons) THEN st
    ELSE LET lesson == st.lessons[i]
             lesson_title == GetOr(lesson, "title", UntitledLesson)
             resource_id == Uuid(st.uuids + 2)
             filename == JStr(<<ToString(i)>> \o FilenameOf(lesson_title.s))
             stored == SetKey(SetKey(lesson, "filename", filename),
                              "resource_id", resource_id)
         IN IF lesson.t # "dict" \/ ~HasKey(lesson, "id") \/ lesson_title.t # "str"
            THEN [st EXCEPT !.raised = TRUE, !.exc = "KeyError"]
            ELSE ManifestItems_Numbered(
                    [st EXCEPT !.lessons[i] = stored, !.uuids = @ + 2], i + 1)

\* the first loop of create_manifest, from lesson i on: an <item> per lesson,
\* the lesson given its filename and resource_id
RECURSIVE ManifestItems(_, _)
ManifestItems(st, i) ==
    IF i > Len(st.lessons) THEN st
    ELSE LET lesson == st.lessons[i]
             lesson_title == GetOr(lesson, "title", UntitledLesson)
             item_id == Uuid(st.uuids + 1)
             resource_id == Uuid(st.uuids + 2)
             filename == JStr(FilenameOf(lesson_title.s))
             stored == SetKey(SetKey(lesson, "filename", filename),
                              "resource_id", resource_id)
         IN IF lesson.t # "dict" THEN [st EXCEPT !.raised = TRUE, !.exc = "TypeError"]
            ELSE IF ~HasKey(lesson, "id")
                 THEN [st EXCEPT !.raised = TRUE, !.exc = "KeyError"]
            ELSE IF lesson_title.t # "str"
                 THEN [st EXCEPT !.raised = TRUE, !.exc = "AttributeError"]
            ELSE ManifestItems(
                    [st EXCEPT !.lessons[i] = stored,
                               !.uuids = @ + 2,
                               !.items = Append(@, [identifier |-> item_id,
                                                    identifierref |-> resource_id,
                                                    title |-> html_escape(lesson_title.s)])],
                    i + 1)

\* a second loop that draws a new identifier for each resource instead of
\* reading the lesson's resource_id
ManifestResources_FreshIds(lessons_) ==
    [i \in 1..Len(lessons_) |->
        [identifier |-> Uuid(100 + i),
         href |-> <<"wiki_content", Get(lessons_[i], "filename").s>>]]

\* the second loop of create_manifest: a <resource> per lesson
ManifestResources(lessons_) ==
    [i \in 1..Len(lessons_) |->
        [identifier |-> Get(lessons_[i], "resource_id"),
         href |-> <<"wiki_content", Get(lessons_[i], "filename").s>>]]

\* a create_canvas_settings that exists and writes the two settings files
create_canvas_settings_Defined(dir_) ==
    [raised |-> FALSE, exc |-> "",
     dir |-> WriteFile(WriteFile(dir_, "course_settings", <<"course_settings.xml">>,
                                 "settings"),
                       "course_settings", <<"canvas_export.txt">>, "export")]

\* create_canvas_settings(paths, course_title): no file defines the name, the
\* call raises NameError
create_canvas_settings(dir_) == [raised |-> TRUE, exc |-> "NameError", dir |-> dir_]

\* a create_manifest that ends with the manifest write and asks for no
\* settings file
create_manifest_SkipsSettings(dir_, lessons_, write_ok) ==
    LET st == ManifestItems([raised |-> FALSE, exc |-> "", lessons |-> lessons_,
                             uuids |-> 2, items |-> <<>>], 1)
        manifest == [items |-> st.items, resources |-> ManifestResources(st.lessons)]
    IN IF st.raised
       THEN [raised |-> TRUE, exc |-> st.exc, lessons |-> st.lessons, dir |-> dir_]
       ELSE IF ~write_ok
            THEN [raised |-> TRUE, exc |-> "OSError", lessons |-> st.lessons, dir |-> dir_]
       ELSE [raised |-> FALSE, exc |-> "", lessons |-> st.lessons,
             dir |-> WriteFile(dir_, "", <<"imsmanifest.xml">>, manifest)]

\* create_manifest: the manifest is built, written, and the settings file asked
\* for; write_ok says that the write raised no OSError
create_manifest(dir_, lessons_, write_ok) ==
    LET st == ManifestItems([raised |-> FALSE, exc |-> "", lessons |-> lessons_,
                             uuids |-> 2, items |-> <<>>], 1)
        settings == [identifier |-> Uuid(st.uuids + 1),
                     href |-> <<"course_settings", <<"canvas_export.txt">>>>]
        manifest == [items |-> st.items,
                     resources |-> <<settings>> \o ManifestResources(st.lessons)]
        written == WriteFile(dir_, "", <<"imsmanifest.xml">>, manifest)
        settings_file == create_canvas_settings(written)
    IN IF st.raised
       THEN [raised |-> TRUE, exc |-> st.exc, lessons |-> st.lessons, dir |-> dir_]
       ELSE IF ~write_ok
            THEN [raised |-> TRUE, exc |-> "OSError", lessons |-> st.lessons, dir |-> dir_]
       ELSE [raised |-> settings_file.raised, exc |-> settings_file.exc,
             lessons |-> st.lessons, dir |-> settings_file.dir]

\* iframe_url: base_url, a '/' unless it ends with one, and the lesson id
IframeUrl(base_url_, lesson_id) ==
    (IF base_url_ # <<>> /\ base_url_[Len(base_url_)] = "/" THEN base_url_
     ELSE Append(base_url_, "/")) \o lesson_id

\* create_lesson_pages, from lesson i on: one page written per lesson, under
\* the filename create_manifest stored or, for want of it, one made here
RECURSIVE create_lesson_pages(_, _, _, _)
create_lesson_pages(dir_, lessons_, base_url_, i) ==
    IF i > Len(lessons_) THEN [raised |-> FALSE, exc |-> "", dir |-> dir_]
    ELSE LET lesson == lessons_[i]
             lesson_title == GetOr(lesson, "title", UntitledLesson)
             stored == GetOr(lesson, "filename", JNull)
             filename == IF Truthy(stored) THEN stored.s ELSE FilenameOf(lesson_title.s)
             page == [title |-> html_escape(lesson_title.s),
                      iframe |-> html_escape(IframeUrl(base_url_, Get(lesson, "id").s))]
         IN IF lesson.t # "dict" THEN [raised |-> TRUE, exc |-> "TypeError", dir |-> dir_]
            ELSE IF ~HasKey(lesson, "id")
                 THEN [raised |-> TRUE, exc |-> "KeyError", dir |-> dir_]
            ELSE IF lesson_title.t # "str"
                 THEN [raised |-> TRUE, exc |-> "AttributeError", dir |-> dir_]
            ELSE IF Get(lesson, "id").t # "str"
                 THEN [raised |-> TRUE, exc |-> "TypeError", dir |-> dir_]
            ELSE create_lesson_pages(WriteFile(dir_, "wiki_content", filename, page),
                                     lessons_, base_url_, i + 1)

\* the order in which the operating system lists the entries of a directory
\* is its own: some order, or the reverse of it
Listings == {"forward", "backward"}

RECURSIVE SomeOrder(_)
SomeOrder(entries) ==
    IF entries = {} THEN <<>>
    ELSE LET first == CHOOSE x \in entries : TRUE
         IN <<first>> \o SomeOrder(entries \ {first})

Reverse(seq) == [i \in 1..Len(seq) |-> seq[Len(seq) + 1 - i]]

Listed(entries, listing) ==
    IF listing = "forward" THEN SomeOrder(entries) ELSE Reverse(SomeOrder(entries))

\* os.walk(temp_dir), top down: the files of the scratch directory, then
\* those of each of its directories, directories and files as listed
RECURSIVE WalkDirs(_, _, _, _)
WalkDirs(dir_, dirs, i, listing) ==
    IF i > Len(dirs) THEN <<>>
    ELSE Listed({f \in dir_.files : f.dir = dirs[i]}, listing)
             \o WalkDirs(dir_, dirs, i + 1, listing)

Walk(dir_, listing) ==
    Listed({f \in dir_.files : f.dir = ""}, listing)
        \o WalkDirs(dir_, Listed(dir_.dirs, listing), 1, listing)

\* where zipfile stops with an OSError, if it does: before the first member is
\* written, or after the files of the root directory
ZipStops == {"no", "at_first", "after_root"}

\* create_imscc_package: ZipFile(output_path, 'w') creates the file, then
\* every file under the scratch directory becomes a member under its relative
\* path; when a write raises, the with block closes the file as far as it got
create_imscc_package(dir_, zip_stop, listing) ==
    CASE zip_stop = "no" ->
           [raised |-> FALSE, exc |-> "",
            archive |-> [exists |-> TRUE, members |-> dir_.files,
                         order |-> Walk(dir_, listing)]]
      [] zip_stop = "at_first" ->
           [raised |-> TRUE, exc |-> "OSError",
            archive |-> [exists |-> TRUE, members |-> {}, order |-> <<>>]]
      [] zip_stop = "after_root" ->
           [raised |-> TRUE, exc |-> "OSError",
            archive |-> [exists |-> TRUE,
                         members |-> {f \in dir_.files : f.dir = ""},
                         order |-> Listed({f \in dir_.files : f.dir = ""}, listing)]]

\* a try block that goes on to the pages and the archive after a step raised
TryBuild_KeepsGoing(dir_, lessons_, base_url_, write_ok, zip_stop, listing) ==
    LET m == create_manifest(dir_, lessons_, write_ok)
        pages == create_lesson_pages(m.dir, m.lessons, base_url_, 1)
    IN [raised |-> m.raised \/ pages.raised,
        exc |-> IF m.raised THEN m.exc ELSE pages.exc,
        lessons |-> m.lessons, dir |-> pages.dir,
        archive |-> create_imscc_package(pages.dir, "no", listing).archive]

\* the try block of create_package after create_directory_structure: the
\* manifest, then the pages, then the archive, each only if the one before
\* returned
TryBuild(dir_, lessons_, base_url_, write_ok, zip_stop, listing) ==
    LET m == create_manifest(dir_, lessons_, write_ok)
        pages == create_lesson_pages(m.dir, m.lessons, base_url_, 1)
    IN IF m.raised
       THEN [raised |-> TRUE, exc |-> m.exc, lessons |-> m.lessons, dir |-> m.dir,
             archive |-> NoArchive]
       ELSE IF pages.raised
            THEN [raised |-> TRUE, exc |-> pages.exc, lessons |-> m.lessons,
                  dir |-> pages.dir, archive |-> NoArchive]
       ELSE create_imscc_package(pages.dir, zip_stop, listing)
               @@ [lessons |-> m.lessons, dir |-> pages.dir]

----------------------------------------------------------------------------
(* A run of create_package: the caller's list, the call, its steps         *)

MaxLessons == 3

Intro == JDict(<<[k |-> "id", v |-> JStr(<<"a", "1">>)],
                 [k |-> "title", v |-> JStr(<<"T", " ", "1">>)]>>)
SameName == JDict(<<[k |-> "id", v |-> JStr(<<"b">>)],
                    [k |-> "title", v |-> JStr(<<"t", "-", "1", "!">>)]>>)
Untitled == JDict(<<[k |-> "id", v |-> JStr(<<"c">>)]>>)
EmptyId == JDict(<<[k |-> "id", v |-> JStr(<<>>)],
                   [k |-> "title", v |-> JStr(<<"T", "&">>)]>>)
NoId == JDict(<<[k |-> "title", v |-> JStr(<<"T", " ", "1">>)]>>)
NullTitle == JDict(<<[k |-> "id", v |-> JStr(<<"d">>)], [k |-> "title", v |-> JNull]>>)
Spaced == JDict(<<[k |-> "id", v |-> JStr(<<"e">>)],
                  [k |-> "title", v |-> JStr(<<"-", "A", " ", "&", "b", " ">>)]>>)
SameId == JDict(<<[k |-> "id", v |-> JStr(<<"a", "1">>)],
                  [k |-> "title", v |-> JStr(<<"T", "2">>)]>>)
LessonInputs == {Intro, SameName, Untitled, EmptyId, NoId, NullTitle, Spaced, SameId}

BaseUrls == {<<>>, <<"u">>, <<"u", "/">>, <<"u", "/", "/">>}

\* what is left alone by a build
NotBuilder == <<lvars, jvars, dvars, cvars, fvars, pvars>>

BuildInit ==
    /\ lessons = <<>>
    /\ base_url = <<>>
    /\ clean_temp = TRUE
    /\ bpc = "args"
    /\ temp_dir = NoDirectory
    /\ output = NoArchive
    /\ built = NotBuilt

\* the caller's list grows by a record
AddLesson ==
    /\ bpc = "args"
    /\ Len(lessons) < MaxLessons
    /\ \E lesson \in LessonInputs : lessons' = Append(lessons, lesson)
    /\ UNCHANGED <<base_url, clean_temp, bpc, temp_dir, output, built, NotBuilder>>

\* create_package(lessons, output_path, base_url, clean_temp=...) is called
CreatePackage ==
    /\ bpc = "args"
    /\ base_url' \in BaseUrls
    /\ clean_temp' \in BOOLEAN
    /\ bpc' = "dirs"
    /\ UNCHANGED <<lessons, temp_dir, output, built, NotBuilder>>

\* paths = create_directory_structure(temp_dir); os.makedirs may raise, with
\* the scratch directory made or not
CreateDirectoryStructure ==
    /\ bpc = "dirs"
    /\ \/ /\ temp_dir' = create_directory_structure(temp_dir)
          /\ bpc' = "manifest"
          /\ built' = built
       \/ /\ \E made \in BOOLEAN : temp_dir' = [temp_dir EXCEPT !.exists = made]
          /\ bpc' = "finally"
          /\ built' = [raised |-> TRUE, exc |-> "OSError", returned |-> FALSE]
    /\ UNCHANGED <<lessons, base_url, clean_temp, output, NotBuilder>>

\* create_manifest(paths, course_title, lessons) and, if it returns, the steps
\* after it in the try block
CreateManifest ==
    /\ bpc = "manifest"
    /\ \E write_ok \in BOOLEAN, zip_stop \in ZipStops, listing \in Listings :
          LET r == TryBuild(temp_dir, lessons, base_url, write_ok, zip_stop, listing)
          IN /\ lessons' = r.lessons
             /\ temp_dir' = r.dir
             /\ output' = r.archive
             /\ built' = [raised |-> r.raised, exc |-> r.exc, returned |-> ~r.raised]
    /\ bpc' = "finally"
    /\ UNCHANGED <<base_url, clean_temp, NotBuilder>>

\* a clean-up that is skipped when the build raised
Finally_OnSuccessOnly ==
    /\ bpc = "finally"
    /\ temp_dir' = IF clean_temp /\ temp_dir.exists /\ ~built.raised
                   THEN NoDirectory ELSE temp_dir
    /\ bpc' = "done"
    /\ UNCHANGED <<lessons, base_url, clean_temp, output, built, NotBuilder>>

\* finally: if clean_temp and os.path.exists(temp_dir): shutil.rmtree(temp_dir)
Finally ==
    /\ bpc = "finally"
    /\ temp_dir' = IF clean_temp /\ temp_dir.exists THEN NoDirectory ELSE temp_dir
    /\ bpc' = "done"
    /\ UNCHANGED <<lessons, base_url, clean_temp, output, built, NotBuilder>>

Next == AddLesson \/ CreatePackage \/ CreateDirectoryStructure \/ CreateManifest \/ Finally

Init == BuildInit /\ LocatorIdle /\ ExtractorIdle /\ DecoderIdle /\ ConcurrentIdle
        /\ LoaderIdle /\ PipelineIdle

Spec == Init /\ [][Next]_vars

----------------------------------------------------------------------------
(* Claims about create_package                                             *)

HasNonEmptyId(lesson) ==
    /\ lesson.t = "dict"
    /\ \E i \in 1..Len(lesson.kv) :
          lesson.kv[i].k = "id" /\ lesson.kv[i].v.t = "str" /\ lesson.kv[i].v.s # <<>>

ContentFiles == {f \in output.members : f.dir = "wiki_content"}
ManifestFiles == {f \in output.members : f.dir = "" /\ f.name = <<"imsmanifest.xml">>}

\* C1: after create_package was called with a list whose records all have a
\* non-empty id, the archive at output_path exists, holds one content file per
\* lesson under wiki_content, and its manifest lists as many resources as
\* there are content files (unless the file system failed the build).
C1_OneContentFilePerLesson ==
    (/\ bpc = "done"
     /\ built.exc # "OSError"
     /\ \A i \in 1..Len(lessons) : HasNonEmptyId(lessons[i])) =>
        /\ output.exists
        /\ Cardinality(ContentFiles) = Len(lessons)
        /\ \A f \in ManifestFiles : Len(f.content.resources) = Cardinality(ContentFiles)
        /\ ManifestFiles # {}

----------------------------------------------------------------------------
(* Claims about the filenames create_manifest derives                      *)

\* the records create_manifest gave a filename
Named == {i \in 1..Len(lessons) :
            lessons[i].t = "dict" /\ HasKey(lessons[i], "filename")}
TitleOf(i) == GetOr(lessons[i], "title", UntitledLesson)
IdOf(i) == Get(lessons[i], "id")
FilenameAt(i) == Get(lessons[i], "filename").s

\* C11: within one build, two lessons with different ids and different titles
\* are given different content-file paths.
C11_DistinctLessonsDistinctPaths ==
    \A i, j \in Named :
        (IdOf(i) # IdOf(j) /\ TitleOf(i) # TitleOf(j)) => FilenameAt(i) # FilenameAt(j)

\* C12: the filename is a function of the lesson's title alone: records with
\* the same title have the same filename, whatever their place in the list,
\* their ids, the uuids drawn for them and the other records of the list.
C12_FilenameDependsOnTitleOnly ==
    /\ \A i, j \in Named : TitleOf(i) = TitleOf(j) => FilenameAt(i) = FilenameAt(j)
    /\ \A i \in Named : FilenameAt(i) = FilenameOf(TitleOf(i).s)

\* two records of one list with the same title, at places that are not next
\* to each other and with different resource ids, both given a filename
C12_Witness ==
    /\ bpc = "done"
    /\ \E i, j \in Named :
          /\ i + 1 < j
          /\ TitleOf(i) = TitleOf(j)
          /\ TitleOf(i + 1) # TitleOf(i)
          /\ Get(lessons[i], "resource_id") # Get(lessons[j], "resource_id")

\* the characters a stem keeps: letters, lowered, and digits
KeptChars == {UpperCase[i] : i \in DOMAIN UpperCase}
             \cup {LowerCase[i] : i \in DOMAIN LowerCase} \cup DigitChars
StemChars == {LowerCase[i] : i \in DOMAIN LowerCase} \cup DigitChars \cup {"-"}

\* what character i of a title leaves in the stem: itself, lowered, if it is
\* kept; one separator if it opens a run of other characters that has kept
\* characters before and after it; nothing otherwise
StemPiece(title, i) ==
    IF title[i] \in KeptChars THEN <<Lower(title[i])>>
    ELSE IF /\ i > 1
            /\ title[i - 1] \in KeptChars
            /\ \E j \in (i + 1)..Len(title) : title[j] \in KeptChars
         THEN <<"-">>
    ELSE <<>>
RECURSIVE StemFrom(_, _)
StemFrom(title, i) ==
    IF i > Len(title) THEN <<>> ELSE StemPiece(title, i) \o StemFrom(title, i + 1)

StemOf(name) == SubSeq(name, 1, Len(name) - 5)
ExtensionOf(name) == SubSeq(name, Len(name) - 4, Len(name))

\* C13: a derived filename is a stem and ".html"; the stem has only
\* characters of [a-z0-9-], neither begins nor ends with "-", has no two "-"
\* in a row, and has exactly one "-" for every run of other characters that
\* lies between kept characters of the title.
C13_FilenameShape ==
    \A i \in Named :
        LET name == FilenameAt(i)
            stem == StemOf(name)
        IN /\ Len(name) >= 5
           /\ ExtensionOf(name) = <<".", "h", "t", "m", "l">>
           /\ \A k \in 1..Len(stem) : stem[k] \in StemChars
           /\ stem # <<>> => (stem[1] # "-" /\ stem[Len(stem)] # "-")
           /\ \A k \in 1..(Len(stem) - 1) : ~(stem[k] = "-" /\ stem[k + 1] = "-")
           /\ stem = StemFrom(TitleOf(i).s, 1)

\* a title that begins with a separator, ends with a run and has a run of two
\* other characters between kept ones
C13_Witness ==
    /\ bpc = "done"
    /\ \E i \in Named :
          /\ TitleOf(i).s = <<"-", "A", " ", "&", "b", " ">>
          /\ FilenameAt(i) = <<"a", "-", "b", ".", "h", "t", "m", "l">>

----------------------------------------------------------------------------
(* Claims about the pages, the scratch directory and the archive           *)

\* a record create_manifest and create_lesson_pages accept: a non-empty id
\* and a title that is a string or absent
WellFormedLesson(lesson) ==
    /\ HasNonEmptyId(lesson)
    /\ GetOr(lesson, "title", UntitledLesson).t = "str"

\* the pages that exist after the call, in the archive or the scratch directory
Pages == {f \in output.members \cup temp_dir.files : f.dir = "wiki_content"}

RECURSIVE StripSlashes(_)
StripSlashes(url) ==
    IF url # <<>> /\ url[Len(url)] = "/" THEN StripSlashes(SubSeq(url, 1, Len(url) - 1))
    ELSE url

\* C14: after create_package was called with well-formed records, every
\* lesson has a wrapper page whose embedded URL is the base URL without its
\* trailing slashes, one "/", and the raw lesson id (unless the file system
\* failed the build).
C14_EmbeddedUrl ==
    (/\ bpc = "done"
     /\ built.exc # "OSError"
     /\ \A i \in 1..Len(lessons) : WellFormedLesson(lessons[i])) =>
        \A i \in 1..Len(lessons) :
            \E f \in Pages :
                f.content.iframe =
                    html_escape(StripSlashes(base_url) \o <<"/">> \o IdOf(i).s)

C18_MissingIdNotFatal ==
    (bpc = "done" /\ \E i \in 1..Len(lessons) : ~HasKey(lessons[i], "id")) =>
        built.exc # "KeyError"

\* a record without the two fields create_manifest stores
CallerFields(lesson) ==
    IF lesson.t = "dict"
    THEN JDict(SelectSeq(lesson.kv, LAMBDA f : f.k \notin {"filename", "resource_id"}))
    ELSE lesson

\* C19: no step of create_package changes the caller's list or a record of
\* it (the list changes only while the caller fills it, before the call).
C19_LessonsUnchanged == [][bpc # "args" => lessons' = lessons]_vars

\* C19, amended: create_package adds, removes and reorders no record and
\* changes no field a record came with; create_manifest adds two fields,
\* filename and resource_id, to every record up to the first that makes it
\* raise.
C19_OnlyDerivedFieldsAdded ==
    [][bpc # "args" =>
        /\ Len(lessons') = Len(lessons)
        /\ \A i \in 1..Len(lessons) : CallerFields(lessons'[i]) = CallerFields(lessons[i])
        /\ bpc = "manifest" =>
              \E n \in 0..Len(lessons) :
                  /\ \A i \in 1..n : /\ HasKey(lessons'[i], "filename")
                                      /\ HasKey(lessons'[i], "resource_id")
                  /\ \A i \in (n + 1)..Len(lessons) : lessons'[i] = lessons[i]
                  /\ n < Len(lessons) => built'.exc \in {"KeyError", "AttributeError"}
      ]_vars

\* a list of two records or more, the first two of which were given the two
\* fields
C19_Witness ==
    /\ bpc = "done"
    /\ Len(lessons) >= 2
    /\ {1, 2} \subseteq Named
    /\ CallerFields(lessons[1]) # lessons[1]

\* C20: when two well-formed lessons of a build have the same id, the build
\* returns, both have the same content-file name, and the file at that path
\* is the page of the later of the two (unless the file system failed the
\* build).
C20_DuplicateIdsLastWriteWins ==
    (/\ bpc = "done"
     /\ built.exc # "OSError"
     /\ \A k \in 1..Len(lessons) : WellFormedLesson(lessons[k])) =>
        \A i, j \in 1..Len(lessons) :
            (/\ i < j
             /\ IdOf(i) = IdOf(j)
             /\ \A k \in (j + 1)..Len(lessons) : IdOf(k) # IdOf(j)) =>
                /\ built.returned
                /\ FilenameAt(i) = FilenameAt(j)
                /\ \E f \in Pages :
                      /\ f.name = FilenameAt(j)
                      /\ f.content.title = html_escape(TitleOf(j).s)

----------------------------------------------------------------------------
(* create_package calls that run side by side in one process or host       *)
(*                                                                         *)
(* Each call is followed through the steps that touch the file system; a   *)
(* file of a scratch directory records the call that wrote it.             *)

NotConcurrent == <<lvars, jvars, dvars, bvars, fvars, pvars>>

\* temp_dir = os.path.join(os.path.dirname(output_path), f"temp_imscc_{timestamp}")
TempDirOf(build) == <<build.output_dir, build.timestamp>>

ConcurrentInit ==
    /\ now = 0
    /\ scratch = [name \in ScratchNames |-> NoDirectory]
    /\ builds = [b \in Builders |-> [NotCalled EXCEPT !.pc = "ready"]]

\* the clock moves on to the next second
Tick ==
    /\ now < MaxTicks
    /\ now' = now + 1
    /\ UNCHANGED <<scratch, builds, NotConcurrent>>

\* create_package is called: the timestamp is read and temp_dir named
Call(b) ==
    /\ builds[b].pc = "ready"
    /\ \E dir \in OutputDirs, clean \in BOOLEAN :
          builds' = [builds EXCEPT ![b] = [pc |-> "dirs", output_dir |-> dir,
                                           timestamp |-> now, clean_temp |-> clean,
                                           exc |-> ""]]
    /\ UNCHANGED <<now, scratch, NotConcurrent>>

\* create_directory_structure(temp_dir): os.makedirs(..., exist_ok=True), a
\* directory that is there already is taken as it is
MakeDirs(b) ==
    /\ builds[b].pc = "dirs"
    /\ scratch' = [scratch EXCEPT ![TempDirOf(builds[b])] =
                                     create_directory_structure(@)]
    /\ builds' = [builds EXCEPT ![b].pc = "manifest"]
    /\ UNCHANGED <<now, NotConcurrent>>

\* create_manifest: open(manifest_path, 'w') raises FileNotFoundError if the
\* directory is gone, else the manifest replaces the one at that path and
\* create_canvas_settings raises NameError
WriteManifest(b) ==
    /\ builds[b].pc = "manifest"
    /\ LET dir_ == scratch[TempDirOf(builds[b])]
       IN IF dir_.exists
          THEN /\ scratch' = [scratch EXCEPT ![TempDirOf(builds[b])] =
                                 create_canvas_settings(
                                     WriteFile(dir_, "", <<"imsmanifest.xml">>, b)).dir]
               /\ builds' = [builds EXCEPT ![b].pc = "finally",
                                           ![b].exc = create_canvas_settings(dir_).exc]
          ELSE /\ scratch' = scratch
               /\ builds' = [builds EXCEPT ![b].pc = "finally",
                                           ![b].exc = "FileNotFoundError"]
    /\ UNCHANGED <<now, NotConcurrent>>

\* finally: if clean_temp and os.path.exists(temp_dir): shutil.rmtree(temp_dir)
Cleanup(b) ==
    /\ builds[b].pc = "finally"
    /\ scratch' = IF builds[b].clean_temp /\ scratch[TempDirOf(builds[b])].exists
                  THEN [scratch EXCEPT ![TempDirOf(builds[b])] = NoDirectory]
                  ELSE scratch
    /\ builds' = [builds EXCEPT ![b].pc = "done"]
    /\ UNCHANGED <<now, NotConcurrent>>

ConcurrentNext ==
    \/ Tick
    \/ \E b \in Builders : Call(b) \/ MakeDirs(b) \/ WriteManifest(b) \/ Cleanup(b)

ConcurrentStart ==
    ConcurrentInit /\ LocatorIdle /\ ExtractorIdle /\ DecoderIdle /\ BuilderIdle
        /\ LoaderIdle /\ PipelineIdle

SpecConcurrent == ConcurrentStart /\ [][ConcurrentNext]_vars

\* the calls that have named their scratch directory and not yet left
Running == {b \in Builders : builds[b].pc \in {"dirs", "manifest", "finally"}}

\* C16: two builds that are running at the same time use scratch directories
\* of different names, no build finds its scratch directory gone, and a
\* manifest in a running build's scratch directory was written by that build.
C16_BuildsIsolated ==
    /\ \A a, b \in Running : a # b => TempDirOf(builds[a]) # TempDirOf(builds[b])
    /\ \A b \in Builders : builds[b].exc # "FileNotFoundError"
    /\ \A b \in Running : \A f \in scratch[TempDirOf(builds[b])].files : f.content = b

----------------------------------------------------------------------------
(* load_lessons_from_file (imscc_creator.py:411-463)                       *)
(*                                                                         *)
(* A file is its extension, whether open, read and parse go through, and   *)
(* its content: the value json.load gives, or the header and the rows      *)
(* csv.reader gives (a blank line is the row <<>>).                        *)

MaxRows == 2

\* os.path.splitext(file_path)[1].lower(), on the extensions of the model
ExtLower(ext) == IF ext = ".JSON" THEN ".json" ELSE IF ext = ".Csv" THEN ".csv" ELSE ext

\* the JSON branch after json.load: a list as it is, data['lessons'] of an
\* object that has the key, else []
JsonLessons(data) ==
    IF data.t = "list" THEN data
    ELSE IF data.t = "dict" /\ HasKey(data, "lessons") THEN Get(data, "lessons")
    ELSE JList(<<>>)

\* csv.DictReader: a row as a dict over the header's names; a name without a
\* cell gets None (cells beyond the header go under the key None, which the
\* function never reads)
DictRow(header, row) ==
    JDict([i \in 1..Len(header) |->
             [k |-> header[i], v |-> IF i <= Len(row) THEN JStr(row[i]) ELSE JNull]])

\* the body of the loop over the reader: a lesson for a row with `id`
RowLesson(row) ==
    IF ~HasKey(row, "id") THEN <<>>
    ELSE <<JDict(<<[k |-> "id", v |-> Get(row, "id")]>>
                 \o (IF HasKey(row, "title")
                     THEN <<[k |-> "title", v |-> Get(row, "title")]>> ELSE <<>>))>>

\* the loop over the reader, from row i on: blank lines are skipped
RECURSIVE CsvLessons(_, _, _)
CsvLessons(header, rows, i) ==
    IF i > Len(rows) THEN <<>>
    ELSE (IF rows[i] = <<>> THEN <<>> ELSE RowLesson(DictRow(header, rows[i])))
             \o CsvLessons(header, rows, i + 1)

load_lessons_from_file(file) ==
    LET file_ext == ExtLower(file.ext)
    IN IF file_ext = ".json"
       THEN [raised |-> FALSE,
             val |-> IF file.ok THEN JsonLessons(file.data) ELSE JList(<<>>)]
       ELSE IF file_ext = ".csv"
       THEN [raised |-> FALSE,
             val |-> IF file.ok THEN JList(CsvLessons(file.header, file.rows, 1))
                     ELSE JList(<<>>)]
       ELSE [raised |-> FALSE, val |-> JList(<<>>)]

\* the files: structured ones with every payload of the locator, tabular
\* ones by header, and one of another type
JsonData ==
    NonDictPayloads \cup {JDict(<<>>), JDict(<<[k |-> "modules", v |-> JList(<<LessonA>>)]>>)}
        \cup {JDict(<<[k |-> "lessons", v |-> v]>>) : v \in Lists \cup OtherValues}
Headers == {<<>>, <<"id">>, <<"id", "title">>, <<"title", "id">>, <<"title">>,
            <<"name", "id", "x">>}
Rows == {<<>>, <<<<"a">>>>, <<<<"a">>, <<"T">>>>, <<<<"b">>, <<"U">>, <<"x">>>>}
Files ==
    {[ext |-> x, ok |-> ok, data |-> d, header |-> <<>>, rows |-> <<>>] :
        x \in {".json", ".JSON"}, ok \in BOOLEAN, d \in JsonData}
    \cup {[ext |-> x, ok |-> ok, data |-> JNull, header |-> h, rows |-> <<>>] :
            x \in {".csv", ".Csv", ".txt"}, ok \in BOOLEAN, h \in Headers}

\* what a load leaves alone
NotLoader == <<lvars, jvars, dvars, bvars, cvars, pvars>>

LoadInit == loading = [pc |-> "new", file |-> NoFile, returned |-> NotLoaded]

\* the file is saved, a table with its header only
SaveFile ==
    /\ loading.pc = "new"
    /\ \E file \in Files : loading' = [loading EXCEPT !.pc = "saved", !.file = file]
    /\ UNCHANGED NotLoader

\* a line is added to a table
AddRow ==
    /\ loading.pc = "saved"
    /\ loading.file.data = JNull
    /\ Len(loading.file.rows) < MaxRows
    /\ \E row \in Rows : loading' = [loading EXCEPT !.file.rows = Append(@, row)]
    /\ UNCHANGED NotLoader

\* load_lessons_from_file(file_path)
LoadLessons ==
    /\ loading.pc = "saved"
    /\ loading' = [loading EXCEPT !.pc = "done",
                                  !.returned = load_lessons_from_file(loading.file)]
    /\ UNCHANGED NotLoader

LoadNext == SaveFile \/ AddRow \/ LoadLessons

LoadStart ==
    LoadInit /\ LocatorIdle /\ ExtractorIdle /\ DecoderIdle /\ BuilderIdle
        /\ ConcurrentIdle /\ PipelineIdle

SpecLoad == LoadStart /\ [][LoadNext]_vars

----------------------------------------------------------------------------
(* Claims about load_lessons_from_file                                     *)

TheFile == loading.file
Structured == ExtLower(TheFile.ext) = ".json" /\ TheFile.ok
Tabular == ExtLower(TheFile.ext) = ".csv" /\ TheFile.ok
Column(name) == CHOOSE i \in 1..Len(TheFile.header) : TheFile.header[i] = name
HasColumn(name) == \E i \in 1..Len(TheFile.header) : TheFile.header[i] = name
\* the lines of the table that are rows, in order
RowPositions == {i \in 1..Len(TheFile.rows) : TheFile.rows[i] # <<>>}
NthRow(j) ==
    TheFile.rows[CHOOSE i \in RowPositions :
                     Cardinality({x \in RowPositions : x <= i}) = j]
\* the cell of a row under a column, None when the row is too short
Cell(row, name) == IF Column(name) <= Len(row) THEN JStr(row[Column(name)]) ELSE JNull

\* the records the claim gives for a table with an id column
IsRowRecords(val) ==
    /\ val.t = "list"
    /\ Len(val.e) = Cardinality(RowPositions)
    /\ \A j \in 1..Len(val.e) :
          /\ val.e[j].t = "dict"
          /\ KeysOf(val.e[j]) = {"id"} \cup (IF HasColumn("title") THEN {"title"} ELSE {})
          /\ Get(val.e[j], "id") = Cell(NthRow(j), "id")
          /\ HasColumn("title") => Get(val.e[j], "title") = Cell(NthRow(j), "title")

\* C26: load_lessons_from_file never raises; it returns the array of a
\* structured file that holds one, the `lessons` array of one that holds an
\* object with such an array, one record {id[, title]} per row, in row
\* order, of a tabular file with an id column, and the empty list for any
\* other content, another file type or a read or parse error.
C26_LoadNeverRaisesReturnsList ==
    loading.pc = "done" =>
        /\ ~loading.returned.raised
        /\ IF Structured /\ TheFile.data.t = "list"
           THEN loading.returned.val = TheFile.data
           ELSE IF /\ Structured /\ TheFile.data.t = "dict"
                   /\ "lessons" \in KeysOf(TheFile.data)
                   /\ Get(TheFile.data, "lessons").t = "list"
           THEN loading.returned.val = Get(TheFile.data, "lessons")
           ELSE IF Tabular /\ HasColumn("id")
           THEN IsRowRecords(loading.returned.val)
           ELSE loading.returned.val = JList(<<>>)

\* the same without the case the code gets wrong: an object whose `lessons`
\* is no array
C26_ExceptLessonsNotAList ==
    (/\ loading.pc = "done"
     /\ ~(/\ Structured /\ TheFile.data.t = "dict"
          /\ "lessons" \in KeysOf(TheFile.data)
          /\ Get(TheFile.data, "lessons").t # "list")) =>
        C26_LoadNeverRaisesReturnsList

----------------------------------------------------------------------------
(* The upload script: tab 1 of streamlit_ui_imscc.py (with the functions   *)
(* of imscc_creator) and main of rise_extractor_app.py (with its own).     *)
(* The file uploaded is searched, the payload decoded, the lessons         *)
(* located and, when the button is pressed, create_package called.         *)
(* Streamlit runs the script again from the top when the button is         *)
(* pressed, with the same upload and the same results; the model goes on   *)
(* from the form instead.                                                  *)
(*                                                                         *)
(* The payload is written with the base64 characters themselves. "F", "K"  *)
(* and "Q" are tokens of the wrapper: the documents are chosen so that     *)
(* their encoding has none of the three.                                   *)

Apps == {"tab1", "rise"}

B64Chars ==
  <<"A", "B", "C", "D", "E", "F", "G", "H", "I", "J", "K", "L", "M", "N",
    "O", "P", "Q", "R", "S", "T", "U", "V", "W", "X", "Y", "Z", "a", "b",
    "c", "d", "e", "f", "g", "h", "i", "j", "k", "l", "m", "n", "o", "p",
    "q", "r", "s", "t", "u", "v", "w", "x", "y", "z", "0", "1", "2", "3",
    "4", "5", "6", "7", "8", "9", "+", "/">>

\* the character a producer writes for a symbol
B64Char(sym) == IF sym = Pad THEN "=" ELSE B64Chars[sym + 1]

\* the symbol binascii reads from a character
SymbolOf(c) ==
    IF c = "=" THEN Pad
    ELSE IF \E i \in 1..64 : B64Chars[i] = c
         THEN (CHOOSE i \in 1..64 : B64Chars[i] = c) - 1
    ELSE Junk

\* {"lessons":[{"id":"a"},{"title":"b"}]}
DocLessons ==
  <<"{", "\"", "l", "e", "s", "s", "o", "n", "s", "\"", ":", "[", "{",
    "\"", "i", "d", "\"", ":", "\"", "a", "\"", "}", ",", "{", "\"", "t",
    "i", "t", "l", "e", "\"", ":", "\"", "b", "\"", "}", "]", "}">>
\* {"lessons":[]}
DocNoLessons ==
  <<"{", "\"", "l", "e", "s", "s", "o", "n", "s", "\"", ":", "[", "]", "}">>
\* {}
DocEmpty ==
  <<"{", "}">>
\* [2]
DocList ==
  <<"[", "2", "]">>
\* {"lessons" and nothing after it
DocBroken ==
  <<"{", "\"", "l", "e", "s", "s", "o", "n", "s", "\"">>
Documents == {DocLessons, DocNoLessons, DocEmpty, DocList, DocBroken}

\* the payload of a document: its bytes, encoded, as characters
PayloadOf(document) ==
    LET symbols == B64Encode([i \in 1..Len(document) |-> Ord(document[i])])
    IN [i \in 1..Len(symbols) |-> B64Char(symbols[i])]

\* the file: the call the strict pattern matches, one only the looser
\* pattern matches, or a call of another function
Wrappers == {"strict", "loose", "none"}
UploadedText(wrapper, document) ==
    (CASE wrapper = "strict" -> <<"F", "(", "Q", "K", "Q", ",", "Q">>
       [] wrapper = "loose" -> <<"F", "(", "x", ",", " ", "Q">>
       [] wrapper = "none" -> <<"x", "(", "Q", "K", "Q", ",", "Q">>)
        \o PayloadOf(document) \o <<"Q", ")", ";">>

\* a string of code points as a string of characters, through a value
RECURSIVE AsText(_)
AsText(v) ==
    CASE v.t = "str" -> JStr([i \in 1..Len(v.s) |-> Chr(v.s[i])])
      [] v.t = "list" -> JList([i \in 1..Len(v.e) |-> AsText(v.e[i])])
      [] v.t = "dict" ->
           JDict([i \in 1..Len(v.kv) |-> [k |-> v.kv[i].k, v |-> AsText(v.kv[i].v)]])
      [] OTHER -> v

\* the copy of the three functions an app calls
CopyOf(app) == IF app = "tab1" THEN "imscc" ELSE "rise"

\* what the script leaves alone: the concurrent builds and the loader
NotPipeline == <<cvars, fvars>>

PipelineInit ==
    pipeline = [pc |-> "start", app |-> "", calls |-> <<>>, shown |-> "", uncaught |-> ""]

\* und_file.getvalue().decode('utf-8'), outside every try block: an upload
\* that is no UTF-8 ends the run with the exception
UploadFile ==
    /\ pipeline.pc = "start"
    /\ \E app \in Apps, wrapper \in Wrappers, document \in Documents, utf8 \in BOOLEAN :
          IF utf8
          THEN /\ text' = <<UploadedText(wrapper, document)>>
               /\ pipeline' = [pipeline EXCEPT !.pc = "extract", !.app = app]
          ELSE /\ text' = text
               /\ pipeline' = [pipeline EXCEPT !.pc = "end", !.app = app,
                                               !.uncaught = "UnicodeDecodeError"]
    /\ UNCHANGED <<file_ok, jpc, extracted, lvars, dvars, bvars, NotPipeline>>

\* a script that goes on to decode whatever the search returned
RunExtract_Unchecked ==
    /\ pipeline.pc = "extract"
    /\ \E readable \in BOOLEAN :
          /\ file_ok' = (readable \/ pipeline.app = "rise")
          /\ extracted' =
                [extracted EXCEPT ![CopyOf(pipeline.app)] =
                    IF pipeline.app = "tab1"
                    THEN extract_jsonp_content_imscc(Flatten(text), readable)
                    ELSE extract_jsonp_content_rise(Flatten(text))]
    /\ pipeline' = [pipeline EXCEPT !.calls = Append(@, "extract_jsonp_content"),
                                    !.pc = "decode"]
    /\ UNCHANGED <<text, jpc, lvars, dvars, bvars, NotPipeline>>

\* base64_content = extract_jsonp_content(...) and `if base64_content:`;
\* imscc_creator's copy reads the temporary file, which may fail
RunExtract ==
    /\ pipeline.pc = "extract"
    /\ \E readable \in BOOLEAN :
          /\ file_ok' = (readable \/ pipeline.app = "rise")
          /\ extracted' =
                [extracted EXCEPT ![CopyOf(pipeline.app)] =
                    IF pipeline.app = "tab1"
                    THEN extract_jsonp_content_imscc(Flatten(text), readable)
                    ELSE extract_jsonp_content_rise(Flatten(text))]
    /\ pipeline' =
          [pipeline EXCEPT
              !.calls = Append(@, "extract_jsonp_content"),
              !.pc = IF extracted'[CopyOf(pipeline.app)].val # <<>> THEN "decode"
                     ELSE "end",
              !.shown = IF extracted'[CopyOf(pipeline.app)].val # <<>> THEN ""
                        ELSE "NotFound"]
    /\ UNCHANGED <<text, jpc, lvars, dvars, bvars, NotPipeline>>

\* json_data = decode_base64_content(base64_content) and `if json_data:`;
\* tab 1 has an else branch with a message, main of the extractor app has
\* none and shows what the function showed
RunDecode ==
    /\ pipeline.pc = "decode"
    /\ base64_content' =
          [i \in 1..Len(extracted[CopyOf(pipeline.app)].val) |->
              SymbolOf(extracted[CopyOf(pipeline.app)].val[i])]
    /\ decoded' =
          [decoded EXCEPT ![CopyOf(pipeline.app)] =
              IF pipeline.app = "tab1" THEN decode_base64_content_imscc(base64_content')
              ELSE decode_base64_content_rise(base64_content')]
    /\ pipeline' =
          [pipeline EXCEPT
              !.calls = Append(@, "decode_base64_content"),
              !.pc = IF Truthy(decoded'[CopyOf(pipeline.app)].returned) THEN "locate"
                     ELSE "end",
              !.shown = IF Truthy(decoded'[CopyOf(pipeline.app)].returned) THEN ""
                        ELSE IF pipeline.app = "tab1" THEN "DecodeFailed"
                        ELSE decoded'[CopyOf(pipeline.app)].shown]
    /\ UNCHANGED <<dpc, lvars, jvars, bvars, NotPipeline>>

\* lessons_data = extract_lesson_data(json_data) and `if lessons_data:`; an
\* exception is caught by the try block of tab 1 and by nothing in main
RunLocate ==
    /\ pipeline.pc = "locate"
    /\ json_data' = AsText(decoded[CopyOf(pipeline.app)].returned)
    /\ \E debug \in BOOLEAN :
          located' =
             [located EXCEPT ![CopyOf(pipeline.app)] =
                 IF pipeline.app = "tab1" THEN extract_lesson_data_imscc(json_data')
                 ELSE extract_lesson_data_rise(json_data', debug)]
    /\ pipeline' =
          [pipeline EXCEPT
              !.calls = Append(@, "extract_lesson_data"),
              !.pc = IF located'[CopyOf(pipeline.app)].val # <<>> THEN "button" ELSE "end",
              !.shown = IF located'[CopyOf(pipeline.app)].raised /\ pipeline.app = "tab1"
                        THEN "ErrorProcessingFile"
                        ELSE IF located'[CopyOf(pipeline.app)].val = <<>>
                                /\ ~located'[CopyOf(pipeline.app)].raised
                                /\ pipeline.app = "tab1"
                        THEN "NoLessons" ELSE "",
              !.uncaught = IF located'[CopyOf(pipeline.app)].raised /\ pipeline.app = "rise"
                           THEN located'[CopyOf(pipeline.app)].exc ELSE ""]
    /\ UNCHANGED <<lpc, jvars, dvars, bvars, NotPipeline>>

\* the button: `if not base_url:` an error, else create_package(lessons_data,
\* output_path, base_url, course_title=...) with a new output directory
ClickCreate ==
    /\ pipeline.pc = "button"
    /\ \E url \in BaseUrls :
          /\ base_url' = url
          /\ IF url = <<>>
             THEN /\ pipeline' = [pipeline EXCEPT !.pc = "end", !.shown = "NoBaseUrl"]
                  /\ UNCHANGED <<lessons, bpc>>
             ELSE /\ pipeline' = [pipeline EXCEPT !.pc = "build",
                                                  !.calls = Append(@, "create_package")]
                  /\ lessons' = located[CopyOf(pipeline.app)].val
                  /\ bpc' = "dirs"
    /\ UNCHANGED <<clean_temp, temp_dir, output, built, lvars, jvars, dvars, NotPipeline>>

\* after create_package: tab 1 catches the exception and shows it, main lets
\* it go; a path returned is read and offered for download
ShowResult ==
    /\ pipeline.pc = "build"
    /\ bpc = "done"
    /\ pipeline' =
          [pipeline EXCEPT
              !.pc = "end",
              !.shown = IF ~built.raised THEN "Created"
                        ELSE IF pipeline.app = "tab1" THEN "ErrorCreating" ELSE "",
              !.uncaught = IF built.raised /\ pipeline.app = "rise" THEN built.exc ELSE ""]
    /\ UNCHANGED <<lvars, jvars, dvars, bvars, NotPipeline>>

PipelineNext ==
    \/ UploadFile \/ RunExtract \/ RunDecode \/ RunLocate \/ ClickCreate
    \/ CreateDirectoryStructure \/ CreateManifest \/ Finally \/ ShowResult

PipelineStart ==
    PipelineInit /\ LocatorIdle /\ ExtractorIdle /\ DecoderIdle /\ BuilderIdle
        /\ ConcurrentIdle /\ LoaderIdle

SpecPipeline == PipelineStart /\ [][PipelineNext]_vars

----------------------------------------------------------------------------
(* Claims about the upload script                                          *)

TheCopy == CopyOf(pipeline.app)
AllCalls == <<"extract_jsonp_content", "decode_base64_content", "extract_lesson_data",
              "create_package">>

\* the uploaded text has no call either pattern matches
WrapperAbsent == text # <<>> /\ StrictHits = {} /\ LooseHits = {}

\* C22: in every run of the upload script the calls are made in the order
\* extract, decode, locate, build, and create_package is called only after
\* the search returned a payload, the decoding returned data and the
\* location returned a non-empty list; a run on a text without the wrapper
\* pattern ends after the search with NotFound shown, no archive and no
\* exception.
C22_BuildOnlyAtEndOfPipeline ==
    /\ \E n \in 0..4 : pipeline.calls = SubSeq(AllCalls, 1, n)
    /\ bpc # "off" =>
          /\ pipeline.calls = AllCalls
          /\ extracted[TheCopy].found /\ extracted[TheCopy].val # <<>>
          /\ ~decoded[TheCopy].raised /\ Truthy(decoded[TheCopy].returned)
          /\ ~located[TheCopy].raised /\ located[TheCopy].val # <<>>
    /\ (WrapperAbsent /\ pipeline.pc # "extract") =>
          /\ pipeline.pc = "end"
          /\ pipeline.calls = <<"extract_jsonp_content">>
          /\ pipeline.shown = "NotFound"
          /\ pipeline.uncaught = ""
          /\ bpc = "off" /\ ~output.exists /\ ~temp_dir.exists

\* a run that got as far as create_package, which ended
C22_Witness ==
    /\ pipeline.pc = "end"
    /\ bpc = "done"
    /\ pipeline.calls = AllCalls
    /\ lessons # <<>>

\* a run on a text without the wrapper that ended with NotFound
C22_NotFoundReached ==
    /\ WrapperAbsent
    /\ pipeline.pc = "end"
    /\ pipeline.shown = "NotFound"

----------------------------------------------------------------------------
(* Claims about the way a build ends                                       *)

\* the manifest is in the scratch directory
ManifestWritten == \E f \in temp_dir.files : f.dir = "" /\ f.name = <<"imsmanifest.xml">>

\* C29: every call of create_package writes the manifest and then raises
\* NameError at create_canvas_settings, for every lesson list: the pages and
\* the archive are never written.
C29_EveryCallFailsAtCanvasSettings ==
    /\ bpc = "finally" => (built.exc = "NameError" /\ ManifestWritten)
    /\ bpc = "done" => (built.raised /\ built.exc = "NameError")
    /\ output = NoArchive
    /\ Pages = {}

\* C29, amended: every call of create_package raises and writes no page and
\* nothing at output_path; it raises NameError at create_canvas_settings,
\* with the manifest written, when every record has an id and a title that
\* is a string or absent and the file system accepts the writes, and raises
\* earlier otherwise: KeyError for a record without id, AttributeError for a
\* title that is no string, OSError from the file system.
C29_EveryCallRaisesBeforePages ==
    /\ output = NoArchive
    /\ Pages = {}
    /\ bpc \in {"finally", "done"} =>
          /\ built.raised /\ ~built.returned
          /\ built.exc \in {"NameError", "KeyError", "AttributeError", "OSError"}
          /\ built.exc = "KeyError" =>
                \E i \in 1..Len(lessons) : ~HasKey(lessons[i], "id")
          /\ built.exc = "AttributeError" =>
                \E i \in 1..Len(lessons) :
                    GetOr(lessons[i], "title", UntitledLesson).t # "str"
          /\ (\A i \in 1..Len(lessons) :
                  /\ HasKey(lessons[i], "id")
                  /\ GetOr(lessons[i], "title", UntitledLesson).t = "str") =>
                built.exc \in {"NameError", "OSError"}
          /\ (bpc = "finally" /\ built.exc = "NameError") => ManifestWritten
          /\ (bpc = "finally" /\ built.exc # "NameError") => ~ManifestWritten

\* a call with the empty list that wrote its manifest and raised NameError
C29_Witness ==
    /\ bpc = "finally"
    /\ lessons = <<>>
    /\ built.exc = "NameError"
    /\ ManifestWritten

\* C27: a build step that raises ends the build: create_package raises the
\* same error instead of returning, no page and no archive is written after
\* a failure of create_directory_structure or create_manifest, a failed
\* directory creation or manifest write leaves no manifest, and once the
\* build has raised nothing more is written by it.
C27_FailureAbortsAndPropagates ==
    /\ [](built.raised =>
            /\ ~built.returned
            /\ built.exc # ""
            /\ ~output.exists
            /\ Pages = {}
            /\ built.exc \in {"OSError", "KeyError", "AttributeError"} =>
                   ~ManifestWritten)
    /\ [][built.raised =>
            /\ built' = built
            /\ output' = output
            /\ temp_dir'.files \subseteq temp_dir.files]_vars

\* a build of a non-empty list that the file system failed
C27_Witness ==
    /\ bpc = "done"
    /\ built.raised /\ built.exc = "OSError"
    /\ Len(lessons) > 0
    /\ ~output.exists

----------------------------------------------------------------------------
(* Claims about the manifest                                               *)

\* the manifest in the scratch directory, and its lesson resources (the
\* first resource is the settings file's)
TheManifest ==
    (CHOOSE f \in temp_dir.files : f.dir = "" /\ f.name = <<"imsmanifest.xml">>).content
LessonResources == Tail(TheManifest.resources)

ClaimUntitled == <<"U", "n", "t", "i", "t", "l", "e", "d", " ", "L", "e", "s", "s", "o", "n">>
ClaimUntitledFile ==
    <<"u", "n", "t", "i", "t", "l", "e", "d", "-", "l", "e", "s", "s", "o", "n",
      ".", "h", "t", "m", "l">>

\* the files create_lesson_pages writes for one record, called on its own
PageFilesOf(lesson) ==
    create_lesson_pages(create_directory_structure(NoDirectory), <<lesson>>,
                        <<"u">>, 1).dir.files

\* C25: a record without a title is treated as titled "Untitled Lesson": its
\* manifest item has that title, its filename is untitled-lesson.html in
\* create_manifest and in create_lesson_pages, its page has that heading,
\* and no build raises AttributeError or KeyError unless a record has a
\* title that is no string or lacks its id.
C25_AbsentTitleIsUntitledLesson ==
    /\ \A i \in Named :
          ~HasKey(lessons[i], "title") =>
              /\ FilenameAt(i) = ClaimUntitledFile
              /\ ManifestWritten => TheManifest.items[i].title = ClaimUntitled
              /\ PageFilesOf(lessons[i]) =
                     {[dir |-> "wiki_content", name |-> ClaimUntitledFile,
                       content |-> [title |-> ClaimUntitled,
                                    iframe |-> <<"u", "/">> \o IdOf(i).s]]}
    /\ \A i \in 1..Len(lessons) :
          (lessons[i].t = "dict" /\ HasKey(lessons[i], "id")
             /\ ~HasKey(lessons[i], "title")
             /\ ~HasKey(lessons[i], "filename")) =>
              PageFilesOf(lessons[i]) =
                  {[dir |-> "wiki_content", name |-> ClaimUntitledFile,
                    content |-> [title |-> ClaimUntitled,
                                 iframe |-> <<"u", "/">> \o IdOf(i).s]]}
    /\ built.exc = "AttributeError" =>
          \E i \in 1..Len(lessons) :
              HasKey(lessons[i], "title") /\ Get(lessons[i], "title").t # "str"
    /\ built.exc = "KeyError" =>
          \E i \in 1..Len(lessons) : ~HasKey(lessons[i], "id")

\* a manifest written for a list with a record that has no title
C25_Witness ==
    /\ ManifestWritten
    /\ \E i \in Named :
          /\ ~HasKey(lessons[i], "title")
          /\ TheManifest.items[i].title = ClaimUntitled

----------------------------------------------------------------------------
(* Claims about the three copies and the deep search                       *)

\* C30: for every payload the three copies of extract_lesson_data (debug off)
\* all raise or all return the same list.
C30_CopiesEquivalent ==
    lpc = "done" =>
        \A c, d \in PlainCopies :
            /\ located[c].raised = located[d].raised
            /\ ~located[c].raised => located[c].val = located[d].val

\* every list in the structure, at every depth
RECURSIVE FullWalk(_)
FullWalk(v) ==
    IF v.t = "dict" THEN UNION {FullWalk(v.kv[i].v) : i \in 1..Len(v.kv)}
    ELSE IF v.t = "list" THEN {v.e} \cup UNION {FullWalk(v.e[i]) : i \in 1..Len(v.e)}
    ELSE {}

\* the lists reached through the fields of records and through the first
\* three elements of a non-empty list whose first element is a record
RECURSIVE ShallowWalk(_)
ShallowWalk(v) ==
    IF v.t = "dict" THEN UNION {ShallowWalk(v.kv[i].v) : i \in 1..Len(v.kv)}
    ELSE IF v.t = "list" /\ v.e # <<>> /\ v.e[1].t = "dict"
    THEN {v.e} \cup UNION {ShallowWalk(v.e[i]) : i \in 1..Min(3, Len(v.e))}
    ELSE {}

\* the candidates of a walk, the best of them, and what the deep search
\* returns when it selects one of the best
ClaimCandidates(walk) == {e \in walk : ClaimMatches(e) > 0}
ClaimBest(walk) ==
    {e \in ClaimCandidates(walk) : \A f \in ClaimCandidates(walk) : ClaimFractionGeq(e, f)}
SelectsBestOf(walk) ==
    IF ClaimCandidates(walk) = {}
    THEN located.und_debug.method = 0 /\ located.und_debug.val = <<>>
    ELSE /\ located.und_debug.method = 3
         /\ \E e \in ClaimBest(walk) : IsProjectionOf(located.und_debug.val, e)

\* steps 1 and 2 found nothing
NothingAtTopLevel == DirectLookupEmpty /\ CandidateFields = {}

\* a number, boolean or null among the first five elements
ScalarInSample(e) ==
    \E i \in 1..Len(e) : i <= 5 /\ e[i].t \in {"null", "bool", "num"}

----------------------------------------------------------------------------
(* Claims about the base URL and the order of the archive                  *)

\* C23: no build runs with an empty base URL: a create_package call with an
\* empty base URL is rejected, it makes no scratch directory, writes no
\* file and ends with an error and without an archive.
C23_BaseUrlRequired ==
    (bpc # "args" /\ base_url = <<>>) =>
        /\ temp_dir = NoDirectory
        /\ output = NoArchive
        /\ bpc = "done" => built.raised

\* the names of the members under wiki_content, in archive order
RECURSIVE PageNames(_, _)
PageNames(order, i) ==
    IF i > Len(order) THEN <<>>
    ELSE (IF order[i].dir = "wiki_content" THEN <<order[i].name>> ELSE <<>>)
             \o PageNames(order, i + 1)

\* C21: after create_package was called with well-formed records, the
\* archive's first member is imsmanifest.xml and its lesson content files
\* follow in the order of the lesson list (unless the file system failed
\* the build).
C21_MembersInInsertionOrder ==
    (/\ bpc = "done"
     /\ built.exc # "OSError"
     /\ \A i \in 1..Len(lessons) : WellFormedLesson(lessons[i])) =>
        /\ output.exists
        /\ output.order # <<>>
        /\ output.order[1].dir = "" /\ output.order[1].name = <<"imsmanifest.xml">>
        /\ PageNames(output.order, 1) = [i \in 1..Len(lessons) |-> FilenameAt(i)]

====
